---------------------------- MODULE Spec2Model ----------------------------
(***************************************************************************)
(* Type propagation over the polymorphic arithmetic nodes of the noise     *)
(* graph (src/src/node.rs).  The graph store (egui_snarl::Snarl) is a map   *)
(* from node index to NoiseNode plus a set of wires; the four              *)
(* NoiseNode::propagate_* functions are modelled one loop iteration per     *)
(* step, with their thread-local scratch storage.                          *)
(***************************************************************************)
EXTENDS Integers, Sequences, FiniteSets, TLC

(* Number of arithmetic-operation nodes in the graph. *)
MaxOps == 2
(* At most MaxWires wires are connected at a time. *)
MaxWires == 2

Ops == 1..MaxOps
F64Id == MaxOps + 1
FractalId == MaxOps + 2
NodeIds == 1..(MaxOps + 2)

(* Input pins of a FractalNode that take a NodeValue. *)
PinSeed == 1
PinFrequency == 2
Pins == {1, 2}

OpType == {"Add", "Divide", "Multiply", "Subtract"}
OpTypeSeq == <<"Add", "Divide", "Multiply", "Subtract">>

Walks == {"f64_from_tuple", "tuple_from_f64", "tuple_from_u32", "u32_from_tuple"}

-----------------------------------------------------------------------------
(* NodeValue<T>: Node(usize) or Value(T).  T is "unit" for (), "f64", "u32". *)
Node(node_idx) == [tag |-> "Node", ty |-> "idx", val |-> node_idx]
Value(ty, v) == [tag |-> "Value", ty |-> ty, val |-> v]

(* impl Default for NodeValue<T>: Value(T::default()), i.e. (), 0.0 or 0. *)
NodeValueDefault(ty) == Value(ty, 0)

is_node_idx(input) == input.tag = "Node"

(* Fault: as_node_index never yields an index. *)
as_node_index_None(input) == <<>>

(* as_node_index as the sequence of zero or one index it yields. *)
as_node_index(input) == IF input.tag = "Node" THEN <<input.val>> ELSE <<>>

(* The three NoiseNode variants that hold a ConstantOpNode<T>. *)
OpKinds == {"Operation", "F64Operation", "U32Operation"}

ConstantOpNode(kind, inputs, op_ty) == [kind |-> kind, inputs |-> inputs, op_ty |-> op_ty]
ConstantNode(kind, name, value) == [kind |-> kind, name |-> name, value |-> value]
FractalNode(seed, octaves, frequency, lacunarity, persistence) ==
    [kind |-> "BasicMulti", seed |-> seed, octaves |-> octaves, frequency |-> frequency,
     lacunarity |-> lacunarity, persistence |-> persistence]

(* The element type of each ConstantOpNode variant. *)
TyOfKind(kind) ==
    CASE kind = "F64Operation" -> "f64"
      [] kind = "U32Operation" -> "u32"
      [] kind = "F64" -> "f64"
      [] kind = "U32" -> "u32"
      [] OTHER -> "unit"

KindOfTy(ty) ==
    CASE ty = "f64" -> "F64Operation"
      [] ty = "u32" -> "U32Operation"
      [] OTHER -> "Operation"

(* Fault: the rewrite resets every slot, references included. *)
ConvertInput_DropsRef(input, ty) == NodeValueDefault(ty)

(* Fault: the rewrite carries the value of a literal over to the new type. *)
ConvertInput_KeepsLiteral(input, ty) ==
    IF is_node_idx(input) THEN Node(input.val) ELSE Value(ty, input.val)

(* The closure mapped over op.inputs when a node is rewritten:            *)
(* input.as_node_index().map(NodeValue::Node).unwrap_or_default()          *)
ConvertInput(input, ty) ==
    IF is_node_idx(input) THEN Node(input.val) ELSE NodeValueDefault(ty)

(* Fault: the rewrite builds the variant the node already has. *)
Rewritten_SameVariant(op, kind) ==
    ConstantOpNode(op.kind,
                   <<ConvertInput(op.inputs[1], TyOfKind(op.kind)),
                     ConvertInput(op.inputs[2], TyOfKind(op.kind))>>,
                   op.op_ty)

(* Fault: the rewrite does not carry the operator tag over. *)
Rewritten_LosesTag(op, kind) ==
    ConstantOpNode(kind,
                   <<ConvertInput(op.inputs[1], TyOfKind(kind)),
                     ConvertInput(op.inputs[2], TyOfKind(kind))>>,
                   "Add")

(* Fault: the rewrite collects the two slots in reverse order. *)
Rewritten_SwapsSlots(op, kind) ==
    ConstantOpNode(kind,
                   <<ConvertInput(op.inputs[2], TyOfKind(kind)),
                     ConvertInput(op.inputs[1], TyOfKind(kind))>>,
                   op.op_ty)

(* *node = NoiseNode::<variant>(ConstantOpNode { inputs: ..., op_ty: op.op_ty }) *)
Rewritten(op, kind) ==
    ConstantOpNode(kind,
                   <<ConvertInput(op.inputs[1], TyOfKind(kind)),
                     ConvertInput(op.inputs[2], TyOfKind(kind))>>,
                   op.op_ty)

(* Fault: the loop reads the last entry of the work list and leaves it there. *)
pop_Peeks(list) == list

(* What node_indices.pop() leaves of the work list: all but its last entry. *)
pop(list) == SubSeq(list, 1, Len(list) - 1)

(* Fault: a promotion takes every operation node, concrete ones included. *)
as_const_op_tuple_AnyOp(node) == node.kind \in OpKinds

(* if let node @ Self::Operation(_) = snarl.get_node_mut(node_idx): the    *)
(* node is an unresolved operation node.                                   *)
as_const_op_tuple(node) == node.kind = "Operation"

(* Fault: the walk does not follow the references of a node. *)
InputIndices_NoRefs(op) == <<>>

(* Fault: the walk follows the reference of the first slot only. *)
InputIndices_FirstOnly(op) == as_node_index(op.inputs[1])

(* op.inputs.iter().filter_map(|input| input.as_node_index()), in slot order. *)
InputIndices(op) == as_node_index(op.inputs[1]) \o as_node_index(op.inputs[2])


-----------------------------------------------------------------------------
VARIABLES
    nodes,                (* Snarl<NoiseNode>: node index -> NoiseNode *)
    edges,                (* Snarl wires: <<from node, to node, input pin>> *)
    pc,                   (* "idle", "loop", "drain", "returned", "aborted" *)
    walk,                 (* the propagate function being run *)
    start,                (* its node_idx argument *)
    child_node_indices,   (* local HashSet<usize> *)
    node_indices,         (* local Vec<usize> *)
    CHILD_NODE_INDICES,   (* thread_local Option<HashSet<usize>>, one per function *)
    NODE_INDICES,         (* thread_local Option<Vec<usize>>, one per function *)
    pre,                  (* history: nodes when the running call was entered *)
    pending,              (* the wire the caller records once the walk returns *)
    prev,                 (* history: the last call that changed the graph *)
    out,                  (* the last call of expr / eval_f64 / eval_u32 and its result *)
    expansions            (* history: how often a walk has expanded each node *)

vars == <<nodes, edges, pc, walk, start, child_node_indices, node_indices,
          CHILD_NODE_INDICES, NODE_INDICES, pre, pending, prev, out, expansions>>

(* No expr or eval call has been made. *)
NoOut == [fn |-> "none", node_idx |-> 0, result |-> [tag |-> "none"]]

SomeOf(v) == [some |-> TRUE, v |-> v]
NoneSet == [some |-> FALSE, v |-> {}]
NoneVec == [some |-> FALSE, v |-> <<>>]

NoPending == [kind |-> "none", from |-> 0, to |-> 0, pin |-> 0]
NoPrev == [walk |-> "none", start |-> 0, pre |-> <<>>]

IsOp(g, n) == g[n].kind \in OpKinds

(* The NodeValue held by input pin `pin` of node n. *)
SlotOf(g, n, pin) ==
    IF IsOp(g, n) THEN g[n].inputs[pin]
    ELSE IF pin = PinSeed THEN g[n].seed ELSE g[n].frequency

(* The T of the NodeValue<T> behind input pin `pin` of node n. *)
SlotTy(g, n, pin) ==
    IF IsOp(g, n) THEN TyOfKind(g[n].kind)
    ELSE IF pin = PinSeed THEN "u32" ELSE "f64"

WithSlot(g, n, pin, v) ==
    IF IsOp(g, n) THEN [g EXCEPT ![n].inputs[pin] = v]
    ELSE IF pin = PinSeed THEN [g EXCEPT ![n].seed = v]
    ELSE [g EXCEPT ![n].frequency = v]

(* Nodes with NodeValue slots, and nodes whose output can feed such a slot. *)
HasSlots(n) == n \in Ops \cup {FractalId}
IsProducer(n) == n \in Ops \cup {F64Id}

(* Fault: the walk sees no consumer of a node. *)
Remotes_Empty(n) == {}

(* snarl.out_pin(OutPinId { node, output: 0 }).remotes *)
Remotes(n) == {e \in edges : e[1] = n}

(* The orders in which remotes.iter() may yield the wires. *)
Orderings(S) ==
    {f \in [1..Cardinality(S) -> S] : \A x \in S : \E i \in 1..Cardinality(S) : f[i] = x}

(* Fault: the consumers of a node are not pushed on the work list. *)
RemoteNodes_None(order) == <<>>

(* Fault: only the first consumer of a node is put on the work list. *)
RemoteNodes_FirstOnly(order) == IF order = <<>> THEN <<>> ELSE <<order[1][2]>>

(* .map(|remote| remote.node) *)
RemoteNodes(order) == [i \in 1..Len(order) |-> order[i][2]]

(* Fault: the work list is put back without being cleared. *)
Cleared_Keeps(list) == list

(* node_indices.clear() *)
Cleared(list) == <<>>

(* Fault: a demotion rewrites each node as it visits it, as a promotion does. *)
DemoteVisit_Rewrites(g, n) == [g EXCEPT ![n] = Rewritten(@, "Operation")]

(* The check phase of a demotion reads the node through snarl.get_node and *)
(* leaves the graph as it is.                                              *)
DemoteVisit(g, n) == g

Init ==
    /\ nodes = [n \in NodeIds |->
               IF n \in Ops
               THEN ConstantOpNode("Operation",
                        <<NodeValueDefault("unit"), NodeValueDefault("unit")>>,
                        OpTypeSeq[(n % 4) + 1])
               ELSE IF n = F64Id THEN ConstantNode("F64", "name", 1)
               ELSE FractalNode(Value("u32", 0), Value("u32", 6), Value("f64", 1),
                                Value("f64", 2), Value("f64", 0))]
    /\ edges = {}
    /\ pc = "idle"
    /\ walk = "none"
    /\ start = 0
    /\ child_node_indices = {}
    /\ node_indices = <<>>
    /\ CHILD_NODE_INDICES = [w \in Walks |-> SomeOf({})]
    /\ NODE_INDICES = [w \in Walks |-> SomeOf(<<>>)]
    /\ pre = <<>>
    /\ pending = NoPending
    /\ prev = NoPrev
    /\ out = NoOut
    /\ expansions = [n \in NodeIds |-> 0]

-----------------------------------------------------------------------------
(* Entry of a propagate function: take both thread-locals, push node_idx. *)
Enter(w, s) ==
    /\ walk' = w
    /\ start' = s
    /\ IF CHILD_NODE_INDICES[w].some /\ NODE_INDICES[w].some
       THEN /\ child_node_indices' = CHILD_NODE_INDICES[w].v
            /\ node_indices' = Append(NODE_INDICES[w].v, s)
            /\ CHILD_NODE_INDICES' = [CHILD_NODE_INDICES EXCEPT ![w] = NoneSet]
            /\ NODE_INDICES' = [NODE_INDICES EXCEPT ![w] = NoneVec]
            /\ pc' = "loop"
       ELSE /\ pc' = "aborted"
            /\ UNCHANGED <<child_node_indices, node_indices,
                           CHILD_NODE_INDICES, NODE_INDICES>>

(* One iteration of the while loop of a promotion, or its exit. *)
PromoteIteration(w, kind) ==
    IF node_indices = <<>>
    THEN /\ child_node_indices' = {}
         /\ CHILD_NODE_INDICES' = [CHILD_NODE_INDICES EXCEPT ![w] = SomeOf({})]
         /\ NODE_INDICES' = [NODE_INDICES EXCEPT ![w] = SomeOf(node_indices)]
         /\ pc' = "returned"
         /\ UNCHANGED <<nodes, edges, walk, start, node_indices, pre, pending, prev>>
    ELSE LET node_idx == node_indices[Len(node_indices)]
             rest == pop(node_indices)
         IN  IF node_idx \in child_node_indices
             THEN /\ node_indices' = rest
                  /\ UNCHANGED <<nodes, edges, pc, walk, start, child_node_indices,
                                 CHILD_NODE_INDICES, NODE_INDICES, pre, pending, prev>>
             ELSE \E order \in Orderings(Remotes(node_idx)) :
                    /\ child_node_indices' = child_node_indices \cup {node_idx}
                    /\ IF as_const_op_tuple(nodes[node_idx])
                       THEN /\ node_indices' = rest \o RemoteNodes(order)
                                                    \o InputIndices(nodes[node_idx])
                            /\ nodes' = [nodes EXCEPT ![node_idx] = Rewritten(@, kind)]
                            /\ pc' = pc
                       ELSE /\ node_indices' = rest \o RemoteNodes(order)
                            /\ pc' = "aborted"
                            /\ nodes' = nodes
                    /\ UNCHANGED <<edges, walk, start, CHILD_NODE_INDICES,
                                   NODE_INDICES, pre, pending, prev>>

(* One iteration of the while loop of a demotion (the check), its early    *)
(* return, or one iteration of the drain loop (the commit) and its exit.   *)
DemoteIteration(w, kind) ==
    IF pc = "loop"
    THEN IF node_indices = <<>>
         THEN /\ pc' = "drain"
              /\ UNCHANGED <<nodes, edges, walk, start, child_node_indices, node_indices,
                             CHILD_NODE_INDICES, NODE_INDICES, pre, pending, prev>>
         ELSE LET node_idx == node_indices[Len(node_indices)]
                  rest == pop(node_indices)
              IN  IF node_idx \in child_node_indices
                  THEN /\ node_indices' = rest
                       /\ UNCHANGED <<nodes, edges, pc, walk, start, child_node_indices,
                                      CHILD_NODE_INDICES, NODE_INDICES, pre, pending, prev>>
                  ELSE IF nodes[node_idx].kind = kind
                  THEN \E order \in Orderings(Remotes(node_idx)) :
                         /\ child_node_indices' = child_node_indices \cup {node_idx}
                         /\ node_indices' = rest \o InputIndices(nodes[node_idx])
                                                 \o RemoteNodes(order)
                         /\ nodes' = DemoteVisit(nodes, node_idx)
                         /\ UNCHANGED <<edges, pc, walk, start, CHILD_NODE_INDICES,
                                        NODE_INDICES, pre, pending, prev>>
                  ELSE /\ child_node_indices' = {}
                       /\ CHILD_NODE_INDICES' = [CHILD_NODE_INDICES EXCEPT ![w] = SomeOf({})]
                       /\ node_indices' = Cleared(rest)
                       /\ NODE_INDICES' = [NODE_INDICES EXCEPT ![w] = SomeOf(Cleared(rest))]
                       /\ pc' = "returned"
                       /\ UNCHANGED <<nodes, edges, walk, start, pre, pending, prev>>
    ELSE IF child_node_indices = {}
         THEN /\ CHILD_NODE_INDICES' = [CHILD_NODE_INDICES EXCEPT ![w] = SomeOf(child_node_indices)]
              /\ NODE_INDICES' = [NODE_INDICES EXCEPT ![w] = SomeOf(node_indices)]
              /\ pc' = "returned"
              /\ UNCHANGED <<nodes, edges, walk, start, child_node_indices, node_indices,
                             pre, pending, prev>>
         ELSE \E node_idx \in child_node_indices :
                /\ child_node_indices' = child_node_indices \ {node_idx}
                /\ IF nodes[node_idx].kind = kind
                   THEN /\ nodes' = [nodes EXCEPT ![node_idx] = Rewritten(@, "Operation")]
                        /\ pc' = pc
                   ELSE /\ nodes' = nodes
                        /\ pc' = "aborted"
                /\ UNCHANGED <<edges, walk, start, node_indices, CHILD_NODE_INDICES,
                               NODE_INDICES, pre, pending, prev>>

(* History: the node whose loop body (the branch taken when                *)
(* child_node_indices.insert(node_idx) returns true) this step runs is     *)
(* counted once more.                                                      *)
Expanded ==
    IF pc = "loop" /\ node_indices # <<>>
       /\ node_indices[Len(node_indices)] \notin child_node_indices
    THEN [expansions EXCEPT ![node_indices[Len(node_indices)]] = @ + 1]
    ELSE expansions

propagate_f64_from_tuple_op ==
    /\ pc = "loop" /\ walk = "f64_from_tuple"
    /\ expansions' = Expanded
    /\ UNCHANGED out
    /\ PromoteIteration("f64_from_tuple", "F64Operation")

propagate_tuple_from_f64_op ==
    /\ pc \in {"loop", "drain"} /\ walk = "tuple_from_f64"
    /\ expansions' = Expanded
    /\ UNCHANGED out
    /\ DemoteIteration("tuple_from_f64", "F64Operation")

propagate_tuple_from_u32_op ==
    /\ pc \in {"loop", "drain"} /\ walk = "tuple_from_u32"
    /\ expansions' = Expanded
    /\ UNCHANGED out
    /\ DemoteIteration("tuple_from_u32", "U32Operation")

propagate_u32_from_tuple_op ==
    /\ pc = "loop" /\ walk = "u32_from_tuple"
    /\ expansions' = Expanded
    /\ UNCHANGED out
    /\ PromoteIteration("u32_from_tuple", "U32Operation")

-----------------------------------------------------------------------------
(* The editing layer: it owns the wires and the slot contents, and calls   *)
(* one propagate function when a wire between a polymorphic node and a     *)
(* typed slot is connected or disconnected.                                *)

(* The value type a node produces on its output pin. *)
OutTy(g, n) == TyOfKind(g[n].kind)

(* The node indices the slots of node n reference. *)
Refs(g, n) ==
    IF HasSlots(n)
    THEN {SlotOf(g, n, pin).val : pin \in {q \in Pins : is_node_idx(SlotOf(g, n, q))}}
    ELSE {}

RECURSIVE DependsWithin(_, _, _)
DependsWithin(g, S, k) ==
    IF k = 0 THEN S
    ELSE DependsWithin(g, S \cup UNION {Refs(g, n) : n \in S}, k - 1)

(* Everything node n depends on through value slots, n included. *)
Dependencies(g, n) == DependsWithin(g, {n}, Cardinality(NodeIds))

WithWire(g, from, to, pin) == WithSlot(g, to, pin, Node(from))

PromoteWalk(ty) == IF ty = "f64" THEN "f64_from_tuple" ELSE "u32_from_tuple"
DemoteWalk(ty) == IF ty = "f64" THEN "tuple_from_f64" ELSE "tuple_from_u32"

Idle ==
    /\ pc' = "idle"
    /\ walk' = "none"
    /\ start' = 0
    /\ pre' = <<>>
    /\ pending' = NoPending
    /\ UNCHANGED <<child_node_indices, node_indices, CHILD_NODE_INDICES, NODE_INDICES>>

(* Connect the output of `from` to input pin `pin` of `to`.  A wire between *)
(* equal types needs no walk.  A wire that pins an unresolved node is       *)
(* preceded (order "walk_first") or followed (order "edge_first") by the    *)
(* promotion of that node.                                                  *)
Connect(from, to, pin, order) ==
    /\ pc = "idle"
    /\ IsProducer(from) /\ HasSlots(to) /\ from # to
    /\ ~is_node_idx(SlotOf(nodes, to, pin))
    /\ to \notin Dependencies(nodes, from)
    /\ Cardinality(edges) < MaxWires
    /\ prev' = NoPrev
    /\ UNCHANGED <<out, expansions>>
    /\ LET ft == OutTy(nodes, from)
           st == SlotTy(nodes, to, pin)
       IN  \/ /\ ft = st
              /\ order = "walk_first"
              /\ nodes' = WithWire(nodes, from, to, pin)
              /\ edges' = edges \cup {<<from, to, pin>>}
              /\ Idle
           \/ /\ ft # st
              /\ ft = "unit" \/ st = "unit"
              /\ LET ty == IF ft = "unit" THEN st ELSE ft
                     s == IF ft = "unit" THEN from ELSE to
                 IN  /\ Enter(PromoteWalk(ty), s)
                     /\ IF order = "walk_first"
                        THEN /\ pending' = [kind |-> "connect", from |-> from,
                                            to |-> to, pin |-> pin]
                             /\ UNCHANGED <<nodes, edges>>
                        ELSE /\ pending' = NoPending
                             /\ nodes' = WithWire(nodes, from, to, pin)
                             /\ edges' = edges \cup {<<from, to, pin>>}
                     /\ pre' = nodes'

(* Disconnect the wire into input pin `pin` of `to`: the wire is removed,   *)
(* the slot falls back to a literal, and a typed operation node at one end  *)
(* of the removed wire is offered for demotion.                             *)
Disconnect(to, pin) ==
    /\ pc = "idle"
    /\ HasSlots(to)
    /\ is_node_idx(SlotOf(nodes, to, pin))
    /\ prev' = NoPrev
    /\ UNCHANGED <<out, expansions>>
    /\ LET from == SlotOf(nodes, to, pin).val
           g == WithSlot(nodes, to, pin, NodeValueDefault(SlotTy(nodes, to, pin)))
           typed == {n \in {from, to} : g[n].kind \in {"F64Operation", "U32Operation"}}
       IN  /\ nodes' = g
           /\ edges' = edges \ {<<from, to, pin>>}
           /\ IF typed = {}
              THEN Idle
              ELSE \E s \in typed :
                     /\ Enter(DemoteWalk(TyOfKind(g[s].kind)), s)
                     /\ pre' = g
                     /\ pending' = NoPending

(* A propagate function called on its own, on any node index. *)
Call(w, s) ==
    /\ pc = "idle"
    /\ Enter(w, s)
    /\ pre' = nodes
    /\ pending' = NoPending
    /\ UNCHANGED <<nodes, edges, prev, out, expansions>>

(* The caller continues after the walk has returned: it records the wire   *)
(* it was connecting, if any.                                              *)
Resume ==
    /\ pc = "returned"
    /\ expansions' = [n \in NodeIds |-> 0]
    /\ UNCHANGED out
    /\ IF pending.kind = "connect"
       THEN /\ nodes' = WithWire(nodes, pending.from, pending.to, pending.pin)
            /\ edges' = edges \cup {<<pending.from, pending.to, pending.pin>>}
            /\ prev' = NoPrev
       ELSE /\ UNCHANGED <<nodes, edges>>
            /\ prev' = IF nodes # pre
                       THEN [walk |-> walk, start |-> start, pre |-> pre]
                       ELSE NoPrev
    /\ Idle

Next ==
    \/ \E from \in NodeIds, to \in NodeIds, pin \in Pins, order \in {"walk_first", "edge_first"} :
         Connect(from, to, pin, order)
    \/ \E to \in NodeIds, pin \in Pins : Disconnect(to, pin)
    \/ \E w \in Walks, s \in NodeIds : Call(w, s)
    \/ propagate_f64_from_tuple_op
    \/ propagate_tuple_from_f64_op
    \/ propagate_tuple_from_u32_op
    \/ propagate_u32_from_tuple_op
    \/ Resume

Spec == Init /\ [][Next]_vars

-----------------------------------------------------------------------------
(* Graph notions the properties are stated with.  They are defined on the  *)
(* graph alone, independently of the walks.                                *)

Consumers(E, n) == {e[2] : e \in {x \in E : x[1] = n}}

RECURSIVE FloodWithin(_, _, _, _)
FloodWithin(g, E, S, k) ==
    IF k = 0 THEN S
    ELSE FloodWithin(g, E,
                     S \cup UNION {Consumers(E, n) \cup Refs(g, n) : n \in S}, k - 1)

(* Every node reachable from s along consumer wires and slot references,   *)
(* in any combination of the two directions.                               *)
Flood(g, E, s) == FloodWithin(g, E, {s}, Cardinality(NodeIds))

(* Operation nodes a and b are directly linked: b references a. *)
Linked(g, E, a, b) ==
    /\ a \in Ops /\ b \in Ops
    /\ a \in Refs(g, b) \/ \E pin \in Pins : <<a, b, pin>> \in E

RECURSIVE ComponentWithin(_, _, _, _)
ComponentWithin(g, E, S, k) ==
    IF k = 0 THEN S
    ELSE ComponentWithin(g, E,
             S \cup {b \in Ops : \E a \in S : Linked(g, E, a, b) \/ Linked(g, E, b, a)},
             k - 1)

(* The component of operation node s: the operation nodes linked to it,    *)
(* directly or through other operation nodes.                              *)
Component(g, E, s) == IF s \in Ops THEN ComponentWithin(g, E, {s}, MaxOps) ELSE {}

TypeConsistent(g, E) ==
    \A a \in Ops, b \in Ops : Linked(g, E, a, b) => g[a].kind = g[b].kind

ValidReference(g, i, ty) ==
    \/ ty = "f64" /\ g[i].kind \in {"F64", "F64Operation"}
    \/ ty = "u32" /\ g[i].kind \in {"U32", "U32Operation"}

IsPromote(w) == w \in {"f64_from_tuple", "u32_from_tuple"}
IsDemote(w) == w \in {"tuple_from_f64", "tuple_from_u32"}

(* The concrete variant a walk promotes to or demotes from. *)
WalkKind(w) == IF w \in {"f64_from_tuple", "tuple_from_f64"}
               THEN "F64Operation" ELSE "U32Operation"

(* Scenario A before the promotion: unresolved a feeds unresolved b, and b *)
(* is the start of a promotion to f64.                                     *)
ScenarioA(a, b) ==
    /\ a \in Ops /\ b \in Ops /\ a # b
    /\ walk = "f64_from_tuple" /\ start = b
    /\ pre[a].kind = "Operation" /\ pre[b].kind = "Operation"
    /\ a \in Refs(pre, b)
    /\ \E pin \in Pins : <<a, b, pin>> \in edges

-----------------------------------------------------------------------------
(* C1: whenever the editor is idle (every edit and the walk it triggered   *)
(* have completed), two operation nodes directly linked by a reference     *)
(* have the same type state.                                               *)
C1_TypeComponentInvariant == pc = "idle" => TypeConsistent(nodes, edges)

C1_Witness ==
    /\ pc = "idle"
    /\ \E a \in Ops, b \in Ops :
         /\ Linked(nodes, edges, a, b)
         /\ nodes[a].kind = "F64Operation"
         /\ nodes[b].kind = "F64Operation"
         /\ nodes[FractalId].frequency = Node(b)

(* C2: when a walk started on a type-consistent graph returns, all         *)
(* operation nodes of the component of the start node have the same type   *)
(* state.                                                                  *)
C2_Atomicity ==
    (pc = "returned" /\ TypeConsistent(pre, edges)) =>
        \A a \in Component(nodes, edges, start), b \in Component(nodes, edges, start) :
            nodes[a].kind = nodes[b].kind

C2_Witness ==
    /\ pc = "returned"
    /\ TypeConsistent(pre, edges)
    /\ Cardinality(Component(nodes, edges, start)) >= 2
    /\ nodes # pre

(* C3 as stated: in Scenario A with the wire b -> frequency present in the *)
(* graph store, promote-to-f64(b) returns and a and b are f64 operations.  *)
C3_EdgePresent ==
    \A a \in Ops, b \in Ops :
        (/\ ScenarioA(a, b)
         /\ <<b, FractalId, PinFrequency>> \in edges
         /\ pc \in {"returned", "aborted"})
        => (/\ pc = "returned"
            /\ nodes[a].kind = "F64Operation"
            /\ nodes[b].kind = "F64Operation")

(* C3 amended: in Scenario A with the wire b -> frequency not yet recorded *)
(* in the graph store (the caller records it after the walk),              *)
(* promote-to-f64(b) returns and a and b are f64 operations.               *)
C3_EdgePending ==
    \A a \in Ops, b \in Ops :
        (/\ ScenarioA(a, b)
         /\ pending = [kind |-> "connect", from |-> b, to |-> FractalId, pin |-> PinFrequency]
         /\ <<b, FractalId, PinFrequency>> \notin edges
         /\ pc \in {"returned", "aborted"})
        => (/\ pc = "returned"
            /\ nodes[a].kind = "F64Operation"
            /\ nodes[b].kind = "F64Operation")

C3_Witness ==
    \E a \in Ops, b \in Ops :
        /\ ScenarioA(a, b)
        /\ pending = [kind |-> "connect", from |-> b, to |-> FractalId, pin |-> PinFrequency]
        /\ <<b, FractalId, PinFrequency>> \notin edges
        /\ pc = "returned"
        /\ nodes[a].kind = "F64Operation"
        /\ nodes[b].kind = "F64Operation"

(* C4: when a promotion returns, every node reachable from the start over  *)
(* consumer wires and references that was an unresolved operation is an    *)
(* operation of the target type.                                           *)
C4_PromotionCoverage ==
    (pc = "returned" /\ IsPromote(walk)) =>
        \A n \in Flood(pre, edges, start) :
            pre[n].kind = "Operation" => nodes[n].kind = WalkKind(walk)

C4_Witness ==
    /\ pc = "returned" /\ walk = "u32_from_tuple"
    /\ \E n \in Flood(pre, edges, start) :
         /\ n # start
         /\ n \in Refs(pre, start)
         /\ pre[n].kind = "Operation"
         /\ nodes[n].kind = "U32Operation"

(* C5: when a demotion returns and every node its flood fill reaches was   *)
(* an operation of the expected concrete type, every reached node is an    *)
(* unresolved operation.                                                   *)
C5_DemotionCommit ==
    (/\ pc = "returned" /\ IsDemote(walk)
     /\ \A n \in Flood(pre, edges, start) : pre[n].kind = WalkKind(walk))
    => \A n \in Flood(pre, edges, start) : nodes[n].kind = "Operation"

(* Scenario A after the wire b -> frequency was disconnected. *)
C5_Witness ==
    /\ pc = "returned" /\ walk = "tuple_from_f64"
    /\ nodes[FractalId].frequency = NodeValueDefault("f64")
    /\ \E a \in Ops :
         /\ a # start
         /\ a \in Refs(pre, start)
         /\ pre[a].kind = "F64Operation" /\ pre[start].kind = "F64Operation"
         /\ nodes[a].kind = "Operation" /\ nodes[start].kind = "Operation"

(* C6: when the flood fill of a demotion reaches a node that is not an     *)
(* operation of the expected concrete type, no node is changed, neither    *)
(* during the walk nor when it returns.                                    *)
C6_DemotionAbort ==
    (/\ pc \in {"loop", "drain", "returned"} /\ IsDemote(walk)
     /\ \E n \in Flood(pre, edges, start) : pre[n].kind # WalkKind(walk))
    => nodes = pre

C6_Witness ==
    /\ pc = "returned" /\ walk = "tuple_from_f64"
    /\ nodes = pre
    /\ pre[start].kind = "F64Operation"
    /\ \E a \in Ops : a # start /\ a \in Refs(pre, start) /\ pre[a].kind = "F64Operation"
    /\ \E n \in Flood(pre, edges, start) : pre[n].kind \notin OpKinds

(* C7: a demotion that returns right after the promotion to the same type  *)
(* from the same start node leaves every node as it was before the         *)
(* promotion.                                                              *)
C7_RoundTrip ==
    (/\ pc = "returned" /\ IsDemote(walk)
     /\ IsPromote(prev.walk) /\ WalkKind(prev.walk) = WalkKind(walk)
     /\ prev.start = start)
    => nodes = prev.pre

C7_Witness ==
    /\ pc = "returned" /\ walk = "tuple_from_u32"
    /\ prev.walk = "u32_from_tuple" /\ prev.start = start
    /\ nodes = prev.pre
    /\ nodes # pre
    /\ Cardinality(Component(nodes, edges, start)) >= 2

(* C8: whenever the editor is idle, a reference held in an f64 or u32 slot *)
(* names a constant or an operation node of that type.                     *)
C8_ReferenceValidity ==
    pc = "idle" =>
        \A n \in Ops \cup {FractalId}, pin \in Pins :
            (is_node_idx(SlotOf(nodes, n, pin)) /\ SlotTy(nodes, n, pin) # "unit")
            => ValidReference(nodes, SlotOf(nodes, n, pin).val, SlotTy(nodes, n, pin))

C8_Witness ==
    /\ pc = "idle"
    /\ is_node_idx(nodes[FractalId].seed)
    /\ \E b \in Ops, a \in Ops :
         /\ nodes[FractalId].seed = Node(b)
         /\ a \in Refs(nodes, b)
         /\ nodes[a].kind = "U32Operation"
         /\ nodes[b].kind = "U32Operation"

(* C9: when a walk has returned, the visited set and the work list of      *)
(* every walk are back in their thread-local slots, empty.                 *)
C9_ScratchStorage ==
    pc \in {"returned", "idle"} =>
        \A w \in Walks :
            /\ CHILD_NODE_INDICES[w] = SomeOf({})
            /\ NODE_INDICES[w] = SomeOf(<<>>)

C9_Witness ==
    /\ pc = "returned" /\ walk = "tuple_from_u32"
    /\ nodes = pre
    /\ pre[start].kind = "U32Operation"
    /\ Cardinality(Consumers(edges, start)) >= 2
    /\ NODE_INDICES[walk] = SomeOf(<<>>)

FrameStep ==
    /\ DOMAIN nodes' = DOMAIN nodes
    /\ edges' = edges
    /\ \A n \in NodeIds :
         IF IsOp(nodes, n)
         THEN /\ IsOp(nodes', n)
              /\ nodes'[n].op_ty = nodes[n].op_ty
              /\ \A pin \in Pins :
                   IF is_node_idx(nodes[n].inputs[pin])
                   THEN nodes'[n].inputs[pin] = nodes[n].inputs[pin]
                   ELSE ~is_node_idx(nodes'[n].inputs[pin])
         ELSE nodes'[n] = nodes[n]

(* C10: a step of a walk keeps the set of nodes, the wires and every node  *)
(* that is not an operation node; an operation node stays an operation     *)
(* node with its operator tag, its references and its literal slots.       *)
WalkStepKeepsFrame == pc \in {"loop", "drain"} => FrameStep

C10_Frame == [][WalkStepKeepsFrame]_vars

C10_Witness ==
    /\ pc = "drain"
    /\ nodes # pre
    /\ \E n \in Ops : nodes[n].kind = "Operation" /\ is_node_idx(nodes[n].inputs[1])
    /\ edges # {}

-----------------------------------------------------------------------------
(* The expression compiler: NoiseNode::expr and the expr / var functions   *)
(* of the node structs.  Option<usize> is <<>> (None) or <<i>> (Some(i)).  *)
(* The image field of a node takes no part in compilation and is left out. *)

None == <<>>
Some(x) == <<x>>

UnaryKinds == {"Abs", "Negate"}
CombinerKinds == {"Add", "Max", "Min", "Multiply", "Power"}
FractalKinds == {"BasicMulti", "Billow", "Fbm", "HybridMulti"}
GeneratorKinds == {"OpenSimplex", "Perlin", "PerlinSurflet", "Simplex", "SuperSimplex", "Value"}
TransformKinds == {"RotatePoint", "ScalePoint", "TranslatePoint"}

UnaryNode(kind, input_node_idx) == [kind |-> kind, input_node_idx |-> input_node_idx]
CombinerNode(kind, input_node_indices) ==
    [kind |-> kind, input_node_indices |-> input_node_indices]
BlendNode(input_node_indices, control_node_idx) ==
    [kind |-> "Blend", input_node_indices |-> input_node_indices,
     control_node_idx |-> control_node_idx]
CheckerboardNode(size) == [kind |-> "Checkerboard", size |-> size]
ClampNode(input_node_idx, lower_bound, upper_bound) ==
    [kind |-> "Clamp", input_node_idx |-> input_node_idx,
     lower_bound |-> lower_bound, upper_bound |-> upper_bound]
ControlPointNode(input, output) == [kind |-> "ControlPoint", input |-> input, output |-> output]
CurveNode(input_node_idx, control_point_node_indices) ==
    [kind |-> "Curve", input_node_idx |-> input_node_idx,
     control_point_node_indices |-> control_point_node_indices]
CylindersNode(frequency) == [kind |-> "Cylinders", frequency |-> frequency]
DisplaceNode(input_node_idx, axes) ==
    [kind |-> "Displace", input_node_idx |-> input_node_idx, axes |-> axes]
ExponentNode(input_node_idx, exponent) ==
    [kind |-> "Exponent", input_node_idx |-> input_node_idx, exponent |-> exponent]
GeneratorNode(kind, seed) == [kind |-> kind, seed |-> seed]
RigidFractalNode(seed, octaves, frequency, lacunarity, persistence, attenuation) ==
    [kind |-> "RigidMulti", seed |-> seed, octaves |-> octaves, frequency |-> frequency,
     lacunarity |-> lacunarity, persistence |-> persistence, attenuation |-> attenuation]
ScaleBiasNode(input_node_idx, scale, bias) ==
    [kind |-> "ScaleBias", input_node_idx |-> input_node_idx, scale |-> scale, bias |-> bias]
SelectNode(input_node_indices, control_node_idx, lower_bound, upper_bound, falloff) ==
    [kind |-> "Select", input_node_indices |-> input_node_indices,
     control_node_idx |-> control_node_idx, lower_bound |-> lower_bound,
     upper_bound |-> upper_bound, falloff |-> falloff]
TerraceNode(input_node_idx, control_point_node_indices) ==
    [kind |-> "Terrace", input_node_idx |-> input_node_idx,
     control_point_node_indices |-> control_point_node_indices]
TransformNode(kind, input_node_idx, axes) ==
    [kind |-> kind, input_node_idx |-> input_node_idx, axes |-> axes]
TurbulenceNode(input_node_idx, seed, frequency, power, roughness) ==
    [kind |-> "Turbulence", input_node_idx |-> input_node_idx, seed |-> seed,
     frequency |-> frequency, power |-> power, roughness |-> roughness]
WorleyNode(seed, frequency) == [kind |-> "Worley", seed |-> seed, frequency |-> frequency]

(* Variable<T>: Anonymous(T), Named(String, T), Operation([Box<Variable>; 2], OpType). *)
Anonymous(value) == [tag |-> "Anonymous", value |-> value]
Named(name, value) == [tag |-> "Named", name |-> name, value |-> value]
Operation(inputs, op_ty) == [tag |-> "Operation", inputs |-> inputs, op_ty |-> op_ty]

(* An Expr variant: its tag, the sub-expressions it holds and the          *)
(* Variables it holds, each in the field order of its struct.              *)
Expr(tag, exprs, variables) == [tag |-> tag, exprs |-> exprs, vars |-> variables]

(* The point where unreachable!() or unwrap() on None panics. *)
UnreachableVar == [tag |-> "unreachable"]
UnreachableExpr == Expr("unreachable", <<>>, <<>>)

(* Fault: the anonymous constant ignores the value it is given. *)
constant_One(value) == Expr("Constant", <<>>, <<Anonymous(1)>>)

(* fn constant(value): Box::new(Expr::Constant(Variable::Anonymous(value))) *)
constant(value) == Expr("Constant", <<>>, <<Anonymous(value)>>)

RECURSIVE expr(_, _)
RECURSIVE var_f64(_, _)
RECURSIVE var_u32(_, _)

(* Fault: the sub-expression of an operation node is its first operand. *)
ConstantOpNode_var_Flat(snarl, node) == var_f64(snarl, node.inputs[1])

(* ConstantOpNode<f64>::var *)
ConstantOpNode_var(snarl, node) ==
    Operation(<<var_f64(snarl, node.inputs[1]), var_f64(snarl, node.inputs[2])>>, node.op_ty)

(* Fault: a reference to a constant compiles to an anonymous literal. *)
var_f64_Unnamed(snarl, input) ==
    IF input.tag = "Node"
    THEN LET node == snarl[input.val]
         IN  IF node.kind = "F64" THEN Anonymous(node.value)
             ELSE IF node.kind = "F64Operation" THEN ConstantOpNode_var(snarl, node)
             ELSE UnreachableVar
    ELSE Anonymous(input.val)

(* NodeValue<f64>::var *)
var_f64(snarl, input) ==
    IF input.tag = "Node"
    THEN LET node == snarl[input.val]
         IN  IF node.kind = "F64" THEN Named(node.name, node.value)
             ELSE IF node.kind = "F64Operation" THEN ConstantOpNode_var(snarl, node)
             ELSE UnreachableVar
    ELSE Anonymous(input.val)

(* Fault: a reference to a u32 operation node is taken for a broken one. *)
var_u32_NoOperation(snarl, input) ==
    IF input.tag = "Node"
    THEN LET node == snarl[input.val]
         IN  IF node.kind = "U32" THEN Named(node.name, node.value) ELSE UnreachableVar
    ELSE Anonymous(input.val)

(* NodeValue<u32>::var *)
var_u32(snarl, input) ==
    IF input.tag = "Node"
    THEN LET node == snarl[input.val]
         IN  IF node.kind = "U32" THEN Named(node.name, node.value)
             ELSE IF node.kind = "U32Operation"
             THEN Operation(<<var_u32(snarl, node.inputs[1]),
                              var_u32(snarl, node.inputs[2])>>, node.op_ty)
             ELSE UnreachableVar
    ELSE Anonymous(input.val)

(* node_idx.map(|node_idx| Box::new(snarl.get_node(node_idx).expr(snarl)))  *)
(*         .unwrap_or_else(|| constant(default_value))                      *)
SourceExpr(snarl, node_idx, default_value) ==
    IF node_idx = None THEN constant(default_value) ELSE expr(snarl, node_idx[1])

(* The map over an array of source slots. *)
SourceExprs(snarl, input_node_indices, default_value) ==
    [i \in 1..Len(input_node_indices) |->
        SourceExpr(snarl, input_node_indices[i], default_value)]

(* UnaryNode::expr: the Box<Expr> of its source. *)
UnaryNode_expr(snarl, node) == SourceExpr(snarl, node.input_node_idx, 0)

(* Fault: every combiner falls back to the same default. *)
CombinerNode_expr_Zero(snarl, node, default_value) ==
    SourceExprs(snarl, node.input_node_indices, 0)

(* CombinerNode::expr(snarl, default_value) *)
CombinerNode_expr(snarl, node, default_value) ==
    SourceExprs(snarl, node.input_node_indices, default_value)

(* Fault: a disconnected control slot makes the compilation panic. *)
BlendNode_expr_Unwraps(snarl, node) ==
    Expr("Blend",
         SourceExprs(snarl, node.input_node_indices, 0)
             \o <<IF node.control_node_idx = None THEN UnreachableExpr
                  ELSE expr(snarl, node.control_node_idx[1])>>,
         <<>>)

(* BlendNode::expr: BlendExpr { sources, control } *)
BlendNode_expr(snarl, node) ==
    Expr("Blend",
         SourceExprs(snarl, node.input_node_indices, 0)
             \o <<SourceExpr(snarl, node.control_node_idx, 0)>>,
         <<>>)

(* ClampNode::expr: ClampExpr { source, lower_bound, upper_bound } *)
ClampNode_expr(snarl, node) ==
    Expr("Clamp", <<SourceExpr(snarl, node.input_node_idx, 0)>>,
         <<var_f64(snarl, node.lower_bound), var_f64(snarl, node.upper_bound)>>)

(* The filter_map over control_point_node_indices of a CurveNode: each     *)
(* ControlPointExpr { input_value, output_value } is two Variables.        *)
RECURSIVE CurveControlPoints(_, _)
CurveControlPoints(snarl, indices) ==
    IF indices = <<>> THEN <<>>
    ELSE LET node_idx == Head(indices)
             point == IF node_idx = None THEN <<>>
                      ELSE IF snarl[node_idx[1]].kind = "ControlPoint"
                      THEN <<var_f64(snarl, snarl[node_idx[1]].input),
                             var_f64(snarl, snarl[node_idx[1]].output)>>
                      ELSE <<UnreachableVar>>
         IN  point \o CurveControlPoints(snarl, Tail(indices))

(* CurveNode::expr: CurveExpr { source, control_points } *)
CurveNode_expr(snarl, node) ==
    Expr("Curve", <<SourceExpr(snarl, node.input_node_idx, 0)>>,
         CurveControlPoints(snarl, node.control_point_node_indices))

(* DisplaceNode::expr: DisplaceExpr { source, axes } *)
DisplaceNode_expr(snarl, node) ==
    Expr("Displace",
         <<SourceExpr(snarl, node.input_node_idx, 0)>> \o SourceExprs(snarl, node.axes, 0),
         <<>>)

(* ExponentNode::expr: ExponentExpr { source, exponent } *)
ExponentNode_expr(snarl, node) ==
    Expr("Exponent", <<SourceExpr(snarl, node.input_node_idx, 0)>>,
         <<var_f64(snarl, node.exponent)>>)

(* FractalNode::expr: FractalExpr { seed, octaves, frequency, lacunarity, persistence } *)
FractalNode_expr(snarl, node) ==
    <<var_u32(snarl, node.seed), var_u32(snarl, node.octaves), var_f64(snarl, node.frequency),
      var_f64(snarl, node.lacunarity), var_f64(snarl, node.persistence)>>

(* RigidFractalNode::expr: the fields of FractalExpr and attenuation *)
RigidFractalNode_expr(snarl, node) ==
    FractalNode_expr(snarl, node) \o <<var_f64(snarl, node.attenuation)>>

(* ScaleBiasNode::expr: ScaleBiasExpr { source, scale, bias } *)
ScaleBiasNode_expr(snarl, node) ==
    Expr("ScaleBias", <<SourceExpr(snarl, node.input_node_idx, 0)>>,
         <<var_f64(snarl, node.scale), var_f64(snarl, node.bias)>>)

(* SelectNode::expr: SelectExpr { sources, control, lower_bound, upper_bound, falloff } *)
SelectNode_expr(snarl, node) ==
    Expr("Select",
         SourceExprs(snarl, node.input_node_indices, 0)
             \o <<SourceExpr(snarl, node.control_node_idx, 0)>>,
         <<var_f64(snarl, node.lower_bound), var_f64(snarl, node.upper_bound),
           var_f64(snarl, node.falloff)>>)

(* The filter_map over control_point_node_indices of a TerraceNode. *)
RECURSIVE TerraceControlPoints(_, _)
TerraceControlPoints(snarl, indices) ==
    IF indices = <<>> THEN <<>>
    ELSE LET node_idx == Head(indices)
             point == IF node_idx = None THEN <<>>
                      ELSE <<var_f64(snarl, Node(node_idx[1]))>>
         IN  point \o TerraceControlPoints(snarl, Tail(indices))

(* TerraceNode::expr: TerraceExpr { source, control_points } *)
TerraceNode_expr(snarl, node) ==
    Expr("Terrace", <<SourceExpr(snarl, node.input_node_idx, 0)>>,
         TerraceControlPoints(snarl, node.control_point_node_indices))

(* TransformNode::expr: TransformExpr { source, axes } *)
TransformNode_expr(snarl, node) ==
    Expr(node.kind, <<SourceExpr(snarl, node.input_node_idx, 0)>>,
         [i \in 1..Len(node.axes) |-> var_f64(snarl, node.axes[i])])

(* TurbulenceNode::expr: TurbulenceExpr { source, seed, frequency, power, roughness } *)
TurbulenceNode_expr(snarl, node) ==
    Expr("Turbulence", <<SourceExpr(snarl, node.input_node_idx, 0)>>,
         <<var_u32(snarl, node.seed), var_f64(snarl, node.frequency),
           var_f64(snarl, node.power), var_u32(snarl, node.roughness)>>)

(* WorleyNode::expr: WorleyExpr { seed, frequency } *)
WorleyNode_expr(snarl, node) ==
    Expr("Worley", <<>>, <<var_u32(snarl, node.seed), var_f64(snarl, node.frequency)>>)

(* The node kinds NoiseNode::expr has no expression for. *)
NoExprKinds == {"ControlPoint", "Operation", "U32", "U32Operation"}

(* NoiseNode::expr *)
expr(snarl, node_idx) ==
    LET node == snarl[node_idx]
        kind == node.kind
    IN  CASE kind \in UnaryKinds -> Expr(kind, <<UnaryNode_expr(snarl, node)>>, <<>>)
          [] kind = "Add" -> Expr(kind, CombinerNode_expr(snarl, node, 0), <<>>)
          [] kind = "Max" -> Expr(kind, CombinerNode_expr(snarl, node, 1), <<>>)
          [] kind = "Min" -> Expr(kind, CombinerNode_expr(snarl, node, -1), <<>>)
          [] kind = "Multiply" -> Expr(kind, CombinerNode_expr(snarl, node, 1), <<>>)
          [] kind = "Power" -> Expr(kind, CombinerNode_expr(snarl, node, 1), <<>>)
          [] kind \in FractalKinds -> Expr(kind, <<>>, FractalNode_expr(snarl, node))
          [] kind = "RigidMulti" -> Expr("RidgedMulti", <<>>, RigidFractalNode_expr(snarl, node))
          [] kind = "Blend" -> BlendNode_expr(snarl, node)
          [] kind = "Checkerboard" -> Expr(kind, <<>>, <<var_u32(snarl, node.size)>>)
          [] kind = "Clamp" -> ClampNode_expr(snarl, node)
          [] kind = "Curve" -> CurveNode_expr(snarl, node)
          [] kind = "Cylinders" -> Expr(kind, <<>>, <<var_f64(snarl, node.frequency)>>)
          [] kind = "Displace" -> DisplaceNode_expr(snarl, node)
          [] kind = "Exponent" -> ExponentNode_expr(snarl, node)
          [] kind = "F64" -> Expr("Constant", <<>>, <<Named(node.name, node.value)>>)
          [] kind = "F64Operation" -> Expr("Constant", <<>>, <<ConstantOpNode_var(snarl, node)>>)
          [] kind \in GeneratorKinds -> Expr(kind, <<>>, <<var_u32(snarl, node.seed)>>)
          [] kind = "ScaleBias" -> ScaleBiasNode_expr(snarl, node)
          [] kind = "Select" -> SelectNode_expr(snarl, node)
          [] kind = "Terrace" -> TerraceNode_expr(snarl, node)
          [] kind \in TransformKinds -> TransformNode_expr(snarl, node)
          [] kind = "Turbulence" -> TurbulenceNode_expr(snarl, node)
          [] kind = "Worley" -> WorleyNode_expr(snarl, node)
          [] kind \in NoExprKinds -> UnreachableExpr

(* A panic anywhere in the recursion unwinds the whole call. *)
RECURSIVE VarPanics(_)
VarPanics(v) ==
    \/ v.tag = "unreachable"
    \/ v.tag = "Operation" /\ \E i \in 1..Len(v.inputs) : VarPanics(v.inputs[i])

RECURSIVE ExprPanics(_)
ExprPanics(e) ==
    \/ e.tag = "unreachable"
    \/ \E i \in 1..Len(e.exprs) : ExprPanics(e.exprs[i])
    \/ \E i \in 1..Len(e.vars) : VarPanics(e.vars[i])

(* What a call of expr on node node_idx gives its caller. *)
compile(snarl, node_idx) ==
    LET tree == expr(snarl, node_idx)
    IN  IF ExprPanics(tree) THEN UnreachableExpr ELSE tree

-----------------------------------------------------------------------------
(* The graphs expr is applied to.  Nodes 1..10 are what a node can         *)
(* reference; node 11 is a node of any kind whose slots reference them.    *)

NodeKinds ==
    UnaryKinds \cup CombinerKinds \cup FractalKinds \cup GeneratorKinds \cup TransformKinds
        \cup {"Blend", "Checkerboard", "Clamp", "ControlPoint", "Curve", "Cylinders",
              "Displace", "Exponent", "F64", "F64Operation", "Operation", "RigidMulti",
              "ScaleBias", "Select", "Terrace", "Turbulence", "U32", "U32Operation",
              "Worley"}

CompileIds == 1..11

(* How the two slots of the outer operation nodes 5 and 6 are filled:      *)
(* literals, a constant, the same constant twice, an operation node.       *)
OpInputs(variant, ty, constant_idx, op_idx) ==
    CASE variant = 1 -> <<Value(ty, 5), Value(ty, 0)>>
      [] variant = 2 -> <<Node(constant_idx), Value(ty, 5)>>
      [] variant = 3 -> <<Node(constant_idx), Node(constant_idx)>>
      [] variant = 4 -> <<Node(op_idx), Node(constant_idx)>>

(* What a typed parameter slot holds: a literal, a reference to a constant *)
(* or a reference to an operation node.                                    *)
SlotFill(mode, ty, constant_idx, op_idx) ==
    CASE mode = "literal" -> Value(ty, 7)
      [] mode = "constant" -> Node(constant_idx)
      [] mode = "operation" -> Node(op_idx)

(* Node 11: a node of the given kind, its source slots filled from s1 and  *)
(* s2, its f64 slots with f and its u32 slots with u.                      *)
NodeOfKind(kind, s1, s2, f, u, op_ty) ==
    CASE kind \in UnaryKinds -> UnaryNode(kind, s1)
      [] kind \in CombinerKinds -> CombinerNode(kind, <<s1, s2>>)
      [] kind \in FractalKinds -> [FractalNode(u, u, f, f, f) EXCEPT !.kind = kind]
      [] kind \in GeneratorKinds -> GeneratorNode(kind, u)
      [] kind \in TransformKinds -> TransformNode(kind, s1, <<f, Value("f64", 1), f, f>>)
      [] kind = "Blend" -> BlendNode(<<s1, s2>>, s2)
      [] kind = "Checkerboard" -> CheckerboardNode(u)
      [] kind = "Clamp" -> ClampNode(s1, f, Value("f64", 1))
      [] kind = "ControlPoint" -> ControlPointNode(f, f)
      [] kind = "Curve" -> CurveNode(s1, IF s2 = None THEN <<None>> ELSE <<Some(7), None, Some(7)>>)
      [] kind = "Cylinders" -> CylindersNode(f)
      [] kind = "Displace" -> DisplaceNode(s1, <<s2, s1, s2, s2>>)
      [] kind = "Exponent" -> ExponentNode(s1, f)
      [] kind = "F64" -> ConstantNode("F64", "b", 4)
      [] kind = "F64Operation" -> ConstantOpNode("F64Operation", <<f, Value("f64", 1)>>, op_ty)
      [] kind = "Operation" ->
             ConstantOpNode("Operation", <<NodeValueDefault("unit"), Node(9)>>, op_ty)
      [] kind = "RigidMulti" -> RigidFractalNode(u, u, f, f, f, f)
      [] kind = "ScaleBias" -> ScaleBiasNode(s1, f, f)
      [] kind = "Select" -> SelectNode(<<s1, s2>>, s2, f, Value("f64", 1), f)
      [] kind = "Terrace" -> TerraceNode(s1, IF s2 = None THEN <<None>> ELSE <<Some(1), None, Some(5)>>)
      [] kind = "Turbulence" -> TurbulenceNode(s1, u, f, f, u)
      [] kind = "U32" -> ConstantNode("U32", "t", 4)
      [] kind = "U32Operation" -> ConstantOpNode("U32Operation", <<u, Value("u32", 1)>>, op_ty)
      [] kind = "Worley" -> WorleyNode(u, f)

CompileGraph(kind, variant, op_ty, mode, s1, s2) ==
    LET f == SlotFill(mode, "f64", 1, 5)
        u == SlotFill(mode, "u32", 2, 6)
    IN  [n \in CompileIds |->
            CASE n = 1 -> ConstantNode("F64", "a", 2)
              [] n = 2 -> ConstantNode("U32", "s", 3)
              [] n = 3 -> ConstantOpNode("F64Operation",
                                         <<Value("f64", 5), Value("f64", 0)>>, "Divide")
              [] n = 4 -> ConstantOpNode("U32Operation", <<Value("u32", 7), Node(2)>>, "Subtract")
              [] n = 5 -> ConstantOpNode("F64Operation", OpInputs(variant, "f64", 1, 3), op_ty)
              [] n = 6 -> ConstantOpNode("U32Operation", OpInputs(variant, "u32", 2, 4), op_ty)
              [] n = 7 -> ControlPointNode(f, Value("f64", 1))
              [] n = 8 -> GeneratorNode("Perlin", u)
              [] n = 9 -> ConstantOpNode("Operation",
                              <<NodeValueDefault("unit"), NodeValueDefault("unit")>>, op_ty)
              [] n = 10 -> UnaryNode("Abs", Some(8))
              [] n = 11 -> NodeOfKind(kind, s1, s2, f, u, op_ty)]

(* No wire is being edited and no walk is running. *)
WalksIdle ==
    /\ edges = {}
    /\ pc = "idle"
    /\ walk = "none"
    /\ start = 0
    /\ child_node_indices = {}
    /\ node_indices = <<>>
    /\ CHILD_NODE_INDICES = [w \in Walks |-> SomeOf({})]
    /\ NODE_INDICES = [w \in Walks |-> SomeOf(<<>>)]
    /\ pre = <<>>
    /\ pending = NoPending
    /\ prev = NoPrev
    /\ expansions = [n \in NodeIds |-> 0]

InitCompile ==
    /\ \E kind \in NodeKinds, variant \in 1..4, op_ty \in {"Add", "Divide"},
          mode \in {"literal", "constant", "operation"},
          s1 \in {None, Some(5), Some(10)}, s2 \in {None, Some(5), Some(10)} :
         nodes = CompileGraph(kind, variant, op_ty, mode, s1, s2)
    /\ out = NoOut
    /\ WalksIdle

(* The caller asks for the expression tree of node node_idx. *)
Compile(node_idx) ==
    /\ out' = [fn |-> "expr", node_idx |-> node_idx, result |-> compile(nodes, node_idx)]
    /\ UNCHANGED <<nodes, edges, pc, walk, start, child_node_indices, node_indices,
                   CHILD_NODE_INDICES, NODE_INDICES, pre, pending, prev, expansions>>

NextCompile == \E node_idx \in CompileIds : Compile(node_idx)

SpecCompile == InitCompile /\ [][NextCompile]_vars

-----------------------------------------------------------------------------
(* Notions the compiler's properties are stated with.  They describe a     *)
(* node and a tree on their own, independently of expr.                    *)

(* The anonymous constant with the given value, written out. *)
AnonymousConstant(value) ==
    [tag |-> "Constant", exprs |-> <<>>, vars |-> <<[tag |-> "Anonymous", value |-> value]>>]

(* The source-input slots of a node, in the order of its sub-expressions. *)
SourceSlots(node) ==
    CASE node.kind \in UnaryKinds -> <<node.input_node_idx>>
      [] node.kind \in CombinerKinds -> node.input_node_indices
      [] node.kind \in {"Blend", "Select"} -> node.input_node_indices \o <<node.control_node_idx>>
      [] node.kind = "Displace" -> <<node.input_node_idx>> \o node.axes
      [] node.kind \in TransformKinds \cup {"Clamp", "Curve", "Exponent", "ScaleBias",
                                            "Terrace", "Turbulence"} -> <<node.input_node_idx>>
      [] OTHER -> <<>>

(* The typed parameter slots of a node, in the order of its Variables. *)
ValueSlots(node) ==
    CASE node.kind \in FractalKinds ->
             <<node.seed, node.octaves, node.frequency, node.lacunarity, node.persistence>>
      [] node.kind = "RigidMulti" ->
             <<node.seed, node.octaves, node.frequency, node.lacunarity, node.persistence,
               node.attenuation>>
      [] node.kind \in GeneratorKinds -> <<node.seed>>
      [] node.kind \in TransformKinds -> node.axes
      [] node.kind = "Checkerboard" -> <<node.size>>
      [] node.kind = "Clamp" -> <<node.lower_bound, node.upper_bound>>
      [] node.kind = "ControlPoint" -> <<node.input, node.output>>
      [] node.kind = "Cylinders" -> <<node.frequency>>
      [] node.kind = "Exponent" -> <<node.exponent>>
      [] node.kind \in OpKinds -> node.inputs
      [] node.kind = "ScaleBias" -> <<node.scale, node.bias>>
      [] node.kind = "Select" -> <<node.lower_bound, node.upper_bound, node.falloff>>
      [] node.kind = "Turbulence" -> <<node.seed, node.frequency, node.power, node.roughness>>
      [] node.kind = "Worley" -> <<node.seed, node.frequency>>
      [] OTHER -> <<>>

(* The control-point slots of a node. *)
PointSlots(node) ==
    IF node.kind \in {"Curve", "Terrace"} THEN node.control_point_node_indices ELSE <<>>

RECURSIVE Sum(_)
Sum(numbers) == IF numbers = <<>> THEN 0 ELSE Head(numbers) + Sum(Tail(numbers))

(* Every node index a slot of the node references, once per slot. *)
References(node) ==
    LET options == SourceSlots(node) \o PointSlots(node)
        values == ValueSlots(node)
    IN  {<<"option", i, options[i][1]>> : i \in {j \in 1..Len(options) : options[j] # None}}
            \cup {<<"value", i, values[i].val>> :
                    i \in {j \in 1..Len(values) : values[j].tag = "Node"}}

ReferencedBy(node) == {r[3] : r \in References(node)}

RECURSIVE ReachWithin(_, _, _)
ReachWithin(g, S, k) ==
    IF k = 0 THEN S
    ELSE ReachWithin(g, S \cup UNION {ReferencedBy(g[n]) : n \in S}, k - 1)

(* The nodes reachable from node n through slots of any sort, n included. *)
Reach(g, n) == ReachWithin(g, {n}, Cardinality(DOMAIN g))

ConstantKinds == {"F64", "U32"}
ConcreteOpKinds == {"F64Operation", "U32Operation"}

(* The number of distinct Constant and concrete-operation nodes reachable from n. *)
DistinctValueNodes(g, n) ==
    Cardinality({m \in Reach(g, n) : g[m].kind \in ConstantKinds \cup ConcreteOpKinds})

(* No node reachable from n is referenced by two slots of reachable nodes. *)
ReferencedOnce(g, n) ==
    \A m \in Reach(g, n) :
        Cardinality({<<k, r>> \in Reach(g, n) \X UNION {References(g[k]) : k \in Reach(g, n)} :
                        r \in References(g[k]) /\ r[3] = m}) <= 1

(* The literal leaves of a tree: its anonymous and its named literals. *)
RECURSIVE VarLiterals(_)
VarLiterals(v) ==
    IF v.tag = "Operation"
    THEN Sum([i \in 1..Len(v.inputs) |-> VarLiterals(v.inputs[i])])
    ELSE 1

RECURSIVE ExprLiterals(_)
ExprLiterals(e) ==
    Sum([i \in 1..Len(e.exprs) |-> ExprLiterals(e.exprs[i])])
        + Sum([i \in 1..Len(e.vars) |-> VarLiterals(e.vars[i])])

(* The leaf values of a tree that come from a node: its named literals and *)
(* its arithmetic sub-expressions.                                         *)
RECURSIVE VarNodeValues(_)
VarNodeValues(v) ==
    CASE v.tag = "Operation" ->
             1 + Sum([i \in 1..Len(v.inputs) |-> VarNodeValues(v.inputs[i])])
      [] v.tag = "Named" -> 1
      [] OTHER -> 0

RECURSIVE ExprNodeValues(_)
ExprNodeValues(e) ==
    Sum([i \in 1..Len(e.exprs) |-> ExprNodeValues(e.exprs[i])])
        + Sum([i \in 1..Len(e.vars) |-> VarNodeValues(e.vars[i])])

(* Variable v is what slot `input` resolves to: a literal gives an         *)
(* anonymous literal, a reference to a constant a named literal, and a     *)
(* reference to a concrete operation a sub-expression of its two slots.    *)
RECURSIVE Resolves(_, _, _)
Resolves(g, input, v) ==
    IF input.tag = "Value"
    THEN v = [tag |-> "Anonymous", value |-> input.val]
    ELSE LET node == g[input.val]
         IN  \/ /\ node.kind \in ConstantKinds
                /\ v = [tag |-> "Named", name |-> node.name, value |-> node.value]
             \/ /\ node.kind \in ConcreteOpKinds
                /\ v.tag = "Operation"
                /\ v.op_ty = node.op_ty
                /\ Len(v.inputs) = 2
                /\ \A i \in 1..2 : Resolves(g, node.inputs[i], v.inputs[i])

(* The last call was expr on a node, and it returned a tree. *)
Compiled == out.fn = "expr" /\ out.result.tag # "unreachable"

(* The value a disconnected source slot of a node of this kind stands for. *)
DisconnectedValue(kind) ==
    CASE kind \in {"Max", "Multiply", "Power"} -> 1
      [] kind = "Min" -> -1
      [] OTHER -> 0

-----------------------------------------------------------------------------
(* C11 as stated: compiling a node with a disconnected source slot gives   *)
(* a tree, with the anonymous constant zero in the position of that slot.  *)
C11_DisconnectedZero ==
    out.fn = "expr" =>
        LET slots == SourceSlots(nodes[out.node_idx])
        IN  \A i \in 1..Len(slots) :
                slots[i] = None =>
                    /\ out.result.tag # "unreachable"
                    /\ out.result.exprs[i] = AnonymousConstant(0)

(* C11 amended: compiling a node with a disconnected source slot gives a   *)
(* tree, with an anonymous constant in the position of that slot; its      *)
(* value is zero, except 1 for Max, Multiply and Power and -1 for Min.     *)
C11_DisconnectedDefault ==
    out.fn = "expr" =>
        LET slots == SourceSlots(nodes[out.node_idx])
        IN  \A i \in 1..Len(slots) :
                slots[i] = None =>
                    /\ out.result.tag # "unreachable"
                    /\ out.result.exprs[i]
                           = AnonymousConstant(DisconnectedValue(nodes[out.node_idx].kind))

C11_Witness ==
    /\ out.fn = "expr"
    /\ nodes[out.node_idx].kind = "Min"
    /\ nodes[out.node_idx].input_node_indices[1] = None
    /\ nodes[out.node_idx].input_node_indices[2] # None
    /\ out.result.exprs[1] = AnonymousConstant(-1)
    /\ out.result.exprs[2].tag = "Abs"

(* C12: compiling a Blend node whose two sources and control are all       *)
(* disconnected gives a Blend expression of three anonymous zero           *)
(* constants.                                                              *)
C12_BlendDisconnected ==
    (/\ out.fn = "expr"
     /\ nodes[out.node_idx].kind = "Blend"
     /\ nodes[out.node_idx].input_node_indices = <<None, None>>
     /\ nodes[out.node_idx].control_node_idx = None)
    => out.result = [tag |-> "Blend",
                     exprs |-> <<AnonymousConstant(0), AnonymousConstant(0),
                                 AnonymousConstant(0)>>,
                     vars |-> <<>>]

C12_Witness ==
    /\ out.fn = "expr"
    /\ nodes[out.node_idx].kind = "Blend"
    /\ nodes[out.node_idx].input_node_indices = <<None, None>>
    /\ nodes[out.node_idx].control_node_idx = None
    /\ out.result.tag = "Blend"
    /\ Len(out.result.exprs) = 3

(* The T of each typed parameter slot, in the order of ValueSlots. *)
ValueSlotTys(node) ==
    CASE node.kind \in FractalKinds -> <<"u32", "u32", "f64", "f64", "f64">>
      [] node.kind = "RigidMulti" -> <<"u32", "u32", "f64", "f64", "f64", "f64">>
      [] node.kind \in GeneratorKinds \cup {"Checkerboard"} -> <<"u32">>
      [] node.kind = "Turbulence" -> <<"u32", "f64", "f64", "u32">>
      [] node.kind = "Worley" -> <<"u32", "f64">>
      [] node.kind \in OpKinds -> <<TyOfKind(node.kind), TyOfKind(node.kind)>>
      [] OTHER -> [i \in 1..Len(ValueSlots(node)) |-> "f64"]

(* The graph is acyclic, every reference in a typed slot names a constant  *)
(* or a concrete operation of the slot's type, every control-point slot    *)
(* names a node of the kind its owner expects, and directly linked         *)
(* operation nodes have the same type state.                               *)
WellFormed(g) ==
    /\ \A n \in DOMAIN g : n \notin ReachWithin(g, ReferencedBy(g[n]), Cardinality(DOMAIN g))
    /\ \A n \in DOMAIN g : \A i \in 1..Len(ValueSlots(g[n])) :
           LET input == ValueSlots(g[n])[i]
               ty == ValueSlotTys(g[n])[i]
           IN  input.tag = "Node" =>
                   IF ty = "unit" THEN g[input.val].kind \in OpKinds \cup ConstantKinds
                   ELSE TyOfKind(g[input.val].kind) = ty
                            /\ g[input.val].kind \in ConstantKinds \cup ConcreteOpKinds
    /\ \A n \in DOMAIN g : \A i \in 1..Len(PointSlots(g[n])) :
           LET point == PointSlots(g[n])[i]
           IN  point # None =>
                   IF g[n].kind = "Curve" THEN g[point[1]].kind = "ControlPoint"
                   ELSE g[point[1]].kind \in {"F64", "F64Operation"}
    /\ \A a \in DOMAIN g, b \in DOMAIN g :
           (g[a].kind \in OpKinds /\ g[b].kind \in OpKinds /\ b \in ReferencedBy(g[a]))
               => g[a].kind = g[b].kind

RECURSIVE SourceReachWithin(_, _, _)
SourceReachWithin(g, S, k) ==
    IF k = 0 THEN S
    ELSE SourceReachWithin(g,
             S \cup UNION {{SourceSlots(g[n])[i][1] :
                              i \in {j \in 1..Len(SourceSlots(g[n])) : SourceSlots(g[n])[j] # None}}
                           : n \in S},
             k - 1)

(* The nodes reached from n through source-input slots, n included. *)
SourceReach(g, n) == SourceReachWithin(g, {n}, Cardinality(DOMAIN g))

(* C13 as stated: on a well-formed graph, compile of any node, whatever    *)
(* its kind, gives a tree and does not abort.                              *)
C13_CompileTotal ==
    (out.fn = "expr" /\ WellFormed(nodes)) => out.result.tag # "unreachable"

(* C13 amended: on a well-formed graph, compile of node n gives a tree     *)
(* when neither n nor a node reached from n through source slots is a      *)
(* control point, an unresolved operation, a u32 constant or a u32         *)
(* operation; compile of a node of one of these four kinds aborts.         *)
C13_CompileTotalOnExprKinds ==
    (out.fn = "expr" /\ WellFormed(nodes)) =>
        /\ (\A m \in SourceReach(nodes, out.node_idx) : nodes[m].kind \notin NoExprKinds)
               => out.result.tag # "unreachable"
        /\ nodes[out.node_idx].kind \in NoExprKinds => out.result.tag = "unreachable"

C13_Witness ==
    /\ out.fn = "expr" /\ WellFormed(nodes)
    /\ nodes[out.node_idx].kind = "Turbulence"
    /\ nodes[out.node_idx].input_node_idx = Some(5)
    /\ nodes[out.node_idx].seed = Node(6)
    /\ nodes[6].inputs[1] = Node(4)
    /\ out.result.tag = "Turbulence"

(* C14: in a compiled tree every typed parameter slot is resolved: a       *)
(* literal to an anonymous literal with that value, a reference to a       *)
(* constant to a named literal with its name and value, a reference to a   *)
(* concrete operation to a sub-expression with its operator tag and its    *)
(* two slots resolved by the same rule.                                    *)
C14_LeafResolution ==
    Compiled =>
        LET node == nodes[out.node_idx]
            slots == ValueSlots(node)
        IN  IF node.kind \in {"F64", "F64Operation"}
            THEN Resolves(nodes, Node(out.node_idx), out.result.vars[1])
            ELSE IF node.kind \in {"Curve", "Terrace"}
            THEN TRUE
            ELSE /\ Len(out.result.vars) = Len(slots)
                 /\ \A i \in 1..Len(slots) : Resolves(nodes, slots[i], out.result.vars[i])

C14_Witness ==
    /\ Compiled
    /\ nodes[out.node_idx].kind = "Worley"
    /\ nodes[out.node_idx].frequency = Node(5)
    /\ nodes[5].inputs = <<Node(3), Node(1)>>
    /\ out.result.vars[2].tag = "Operation"
    /\ out.result.vars[2].inputs[1].tag = "Operation"
    /\ out.result.vars[2].inputs[1].inputs[1] = [tag |-> "Anonymous", value |-> 5]
    /\ out.result.vars[2].inputs[2] = [tag |-> "Named", name |-> "a", value |-> 2]

(* C15 as stated: the number of literal leaves of the compiled tree,       *)
(* counted as its anonymous and named literals or as its named literals    *)
(* and arithmetic sub-expressions, equals the number of distinct Constant  *)
(* and concrete-operation nodes reachable from n.                          *)
C15_LeafCount ==
    (Compiled /\ WellFormed(nodes)) =>
        \/ ExprLiterals(out.result) = DistinctValueNodes(nodes, out.node_idx)
        \/ ExprNodeValues(out.result) = DistinctValueNodes(nodes, out.node_idx)

(* C15 amended: the number of named literals and arithmetic                *)
(* sub-expressions of the compiled tree is at least the number of distinct *)
(* Constant and concrete-operation nodes reachable from n, and equals it   *)
(* when no reachable node is referenced by more than one slot.             *)
C15_LeafValues ==
    (Compiled /\ WellFormed(nodes)) =>
        /\ ExprNodeValues(out.result) >= DistinctValueNodes(nodes, out.node_idx)
        /\ ReferencedOnce(nodes, out.node_idx)
               => ExprNodeValues(out.result) = DistinctValueNodes(nodes, out.node_idx)

C15_Witness ==
    /\ Compiled /\ WellFormed(nodes)
    /\ ReferencedOnce(nodes, out.node_idx)
    /\ DistinctValueNodes(nodes, out.node_idx) >= 3
    /\ ExprNodeValues(out.result) = DistinctValueNodes(nodes, out.node_idx)
    /\ ExprLiterals(out.result) > DistinctValueNodes(nodes, out.node_idx)

-----------------------------------------------------------------------------
(* The scalar evaluator: NoiseNode::eval_u32 and NoiseNode::eval_f64.      *)

(* A u32 is held as two 16-bit limbs <<high, low>>, so that all 32 bits    *)
(* are kept: 4294967295 is <<65535, 65535>>.                               *)
Limb == 65536
u32(n) == <<n \div Limb, n % Limb>>
u32_MAX == <<Limb - 1, Limb - 1>>
u32_default == <<0, 0>>

(* a < b, also for an intermediate value whose high limb exceeds 16 bits. *)
Less(a, b) == a[1] < b[1] \/ (a[1] = b[1] /\ a[2] < b[2])

(* a - b for a >= b. *)
Minus(a, b) ==
    IF a[2] < b[2] THEN <<a[1] - b[1] - 1, a[2] + Limb - b[2]>>
    ELSE <<a[1] - b[1], a[2] - b[2]>>

(* 2 * a + bit *)
Doubled(a, bit) == <<2 * a[1] + (2 * a[2] + bit) \div Limb, (2 * a[2] + bit) % Limb>>

(* Bit i (0..31) of a. *)
BitOf(a, i) == IF i >= 16 THEN (a[1] \div 2^(i - 16)) % 2 ELSE (a[2] \div 2^i) % 2

(* The product of two 16-bit limbs, as <<high, low>>. *)
LimbProduct(x, y) ==
    LET upper == (x \div 256) * y
        low == (upper % 256) * 256 + (x % 256) * y
    IN  <<upper \div 256 + low \div Limb, low % Limb>>

(* Fault: the sum wraps around. *)
checked_add_Wrapping(lhs, rhs) ==
    LET low == lhs[2] + rhs[2]
        high == lhs[1] + rhs[1] + low \div Limb
    IN  Some(<<high % Limb, low % Limb>>)

(* u32::checked_add *)
checked_add(lhs, rhs) ==
    LET low == lhs[2] + rhs[2]
        high == lhs[1] + rhs[1] + low \div Limb
    IN  IF high >= Limb THEN None ELSE Some(<<high, low % Limb>>)

(* u32::checked_sub *)
checked_sub(lhs, rhs) == IF Less(lhs, rhs) THEN None ELSE Some(Minus(lhs, rhs))

(* u32::checked_mul *)
checked_mul(lhs, rhs) ==
    IF lhs[1] > 0 /\ rhs[1] > 0 THEN None
    ELSE LET wide == IF lhs[1] > 0 THEN lhs ELSE rhs
             narrow == IF lhs[1] > 0 THEN rhs[2] ELSE lhs[2]
             low == LimbProduct(wide[2], narrow)
             high == LimbProduct(wide[1], narrow)
         IN  IF high[1] > 0 \/ high[2] + low[1] >= Limb THEN None
             ELSE Some(<<high[2] + low[1], low[2]>>)

(* Long division, one bit of the dividend per step from bit i down to 0:   *)
(* <<quotient, remainder>>.                                                *)
RECURSIVE DivideFrom(_, _, _, _, _)
DivideFrom(lhs, rhs, i, quotient, remainder) ==
    LET shifted == Doubled(remainder, BitOf(lhs, i))
        fits == ~Less(shifted, rhs)
        q == Doubled(quotient, IF fits THEN 1 ELSE 0)
        r == IF fits THEN Minus(shifted, rhs) ELSE shifted
    IN  IF i = 0 THEN <<q, r>> ELSE DivideFrom(lhs, rhs, i - 1, q, r)

(* u32::checked_div *)
checked_div(lhs, rhs) ==
    IF rhs = <<0, 0>> THEN None
    ELSE Some(DivideFrom(lhs, rhs, 31, <<0, 0>>, <<0, 0>>)[1])

(* Option<u32>::unwrap_or_default *)
unwrap_or_default(option) == IF option = None THEN u32_default ELSE option[1]

(* The value of a call that hit unreachable!(). *)
UnreachableU32 == <<-1, -1>>

RECURSIVE eval_u32(_, _)

(* NodeValue<u32>::eval *)
NodeValue_u32_eval(snarl, input) ==
    IF input.tag = "Node" THEN eval_u32(snarl, input.val) ELSE input.val

(* Fault: a failed operation gives the largest value instead of zero. *)
eval_u32_Saturating(snarl, node_idx) ==
    LET node == snarl[node_idx]
    IN  IF node.kind = "U32" THEN node.value
        ELSE IF node.kind = "U32Operation"
        THEN LET lhs == NodeValue_u32_eval(snarl, node.inputs[1])
                 rhs == NodeValue_u32_eval(snarl, node.inputs[2])
                 checked == CASE node.op_ty = "Add" -> checked_add(lhs, rhs)
                              [] node.op_ty = "Divide" -> checked_div(lhs, rhs)
                              [] node.op_ty = "Multiply" -> checked_mul(lhs, rhs)
                              [] node.op_ty = "Subtract" -> checked_sub(lhs, rhs)
             IN  IF UnreachableU32 \in {lhs, rhs} THEN UnreachableU32
                 ELSE IF checked = None THEN u32_MAX ELSE checked[1]
        ELSE UnreachableU32

(* NoiseNode::eval_u32 *)
eval_u32(snarl, node_idx) ==
    LET node == snarl[node_idx]
    IN  IF node.kind = "U32" THEN node.value
        ELSE IF node.kind = "U32Operation"
        THEN LET lhs == NodeValue_u32_eval(snarl, node.inputs[1])
                 rhs == NodeValue_u32_eval(snarl, node.inputs[2])
                 checked == CASE node.op_ty = "Add" -> checked_add(lhs, rhs)
                              [] node.op_ty = "Divide" -> checked_div(lhs, rhs)
                              [] node.op_ty = "Multiply" -> checked_mul(lhs, rhs)
                              [] node.op_ty = "Subtract" -> checked_sub(lhs, rhs)
             IN  IF UnreachableU32 \in {lhs, rhs} THEN UnreachableU32
                 ELSE unwrap_or_default(checked)
        ELSE UnreachableU32

(* An f64 is NaN, an infinity or a finite value; a finite value is held as *)
(* sign and magnitude num/den in lowest terms, so that 0.0 and -0.0 are    *)
(* two values.  Rounding is left out: the operands used are all exact.     *)
NaN == [cls |-> "nan", neg |-> FALSE, num |-> 0, den |-> 1]
Infinity(neg) == [cls |-> "inf", neg |-> neg, num |-> 0, den |-> 1]

RECURSIVE GCD(_, _)
GCD(a, b) == IF b = 0 THEN a ELSE GCD(b, a % b)

Finite(neg, num, den) ==
    [cls |-> "fin", neg |-> neg, num |-> num \div GCD(num, den), den |-> den \div GCD(num, den)]

(* The f64 nearest to the integer n. *)
f64(n) == IF n < 0 THEN Finite(TRUE, -n, 1) ELSE Finite(FALSE, n, 1)
NegativeZero == Finite(TRUE, 0, 1)

IsZero(x) == x.cls = "fin" /\ x.num = 0

(* x != 0.0: a comparison with NaN is never equal, and -0.0 equals 0.0. *)
NotEqualZero(x) == ~IsZero(x)

Negated(x) == IF x.cls = "nan" THEN x ELSE [x EXCEPT !.neg = ~x.neg]

(* lhs + rhs *)
f64_add(lhs, rhs) ==
    CASE lhs.cls = "nan" \/ rhs.cls = "nan" -> NaN
      [] lhs.cls = "inf" /\ rhs.cls = "inf" -> IF lhs.neg = rhs.neg THEN lhs ELSE NaN
      [] lhs.cls = "inf" -> lhs
      [] rhs.cls = "inf" -> rhs
      [] OTHER ->
             LET l == (IF lhs.neg THEN -1 ELSE 1) * lhs.num * rhs.den
                 r == (IF rhs.neg THEN -1 ELSE 1) * rhs.num * lhs.den
                 sum == l + r
             IN  IF sum = 0
                 THEN Finite(lhs.neg /\ rhs.neg /\ IsZero(lhs) /\ IsZero(rhs), 0, 1)
                 ELSE IF sum < 0 THEN Finite(TRUE, -sum, lhs.den * rhs.den)
                 ELSE Finite(FALSE, sum, lhs.den * rhs.den)

(* lhs - rhs *)
f64_sub(lhs, rhs) == f64_add(lhs, Negated(rhs))

(* lhs * rhs *)
f64_mul(lhs, rhs) ==
    CASE lhs.cls = "nan" \/ rhs.cls = "nan" -> NaN
      [] lhs.cls = "inf" \/ rhs.cls = "inf" ->
             IF IsZero(lhs) \/ IsZero(rhs) THEN NaN ELSE Infinity(lhs.neg # rhs.neg)
      [] OTHER -> Finite(lhs.neg # rhs.neg, lhs.num * rhs.num, lhs.den * rhs.den)

(* lhs / rhs *)
f64_div(lhs, rhs) ==
    CASE lhs.cls = "nan" \/ rhs.cls = "nan" -> NaN
      [] lhs.cls = "inf" -> IF rhs.cls = "inf" THEN NaN ELSE Infinity(lhs.neg # rhs.neg)
      [] rhs.cls = "inf" -> Finite(lhs.neg # rhs.neg, 0, 1)
      [] IsZero(rhs) -> IF IsZero(lhs) THEN NaN ELSE Infinity(lhs.neg # rhs.neg)
      [] OTHER -> Finite(lhs.neg # rhs.neg, lhs.num * rhs.den, lhs.den * rhs.num)

(* The value of a call that hit unreachable!(). *)
UnreachableF64 == [cls |-> "unreachable", neg |-> FALSE, num |-> 0, den |-> 1]

RECURSIVE eval_f64(_, _)

(* NodeValue<f64>::eval *)
NodeValue_f64_eval(snarl, input) ==
    IF input.tag = "Node" THEN eval_f64(snarl, input.val) ELSE input.val

(* Fault: the guard looks for the bit pattern of 0.0, which -0.0 does not have. *)
Divide_PositiveZeroOnly(lhs, rhs) ==
    IF rhs # f64(0) THEN f64_div(lhs, rhs) ELSE f64(0)

(* The OpType::Divide arm of eval_f64. *)
Divide(lhs, rhs) == IF NotEqualZero(rhs) THEN f64_div(lhs, rhs) ELSE f64(0)

(* NoiseNode::eval_f64 *)
eval_f64(snarl, node_idx) ==
    LET node == snarl[node_idx]
    IN  IF node.kind = "F64" THEN node.value
        ELSE IF node.kind = "F64Operation"
        THEN LET lhs == NodeValue_f64_eval(snarl, node.inputs[1])
                 rhs == NodeValue_f64_eval(snarl, node.inputs[2])
             IN  IF UnreachableF64 \in {lhs, rhs} THEN UnreachableF64
                 ELSE CASE node.op_ty = "Add" -> f64_add(lhs, rhs)
                        [] node.op_ty = "Divide" -> Divide(lhs, rhs)
                        [] node.op_ty = "Multiply" -> f64_mul(lhs, rhs)
                        [] node.op_ty = "Subtract" -> f64_sub(lhs, rhs)
        ELSE UnreachableF64

-----------------------------------------------------------------------------
(* The graphs the evaluators are applied to: a constant (1), an operation  *)
(* node over two literals (2), and an operation node (3) over a literal,   *)
(* the constant and the other operation node.                              *)

EvalIds == 1..3

(* Operands that reach the limits of 32 bits and of 16-bit limbs. *)
U32Operands ==
    {u32(0), u32(1), u32(2), u32(3), u32(7), u32(65535), u32(65536), u32(65537),
     <<32768, 0>>, <<65535, 65534>>, u32_MAX}

F64Operands ==
    {f64(0), NegativeZero, f64(1), f64(-1), f64(3), f64(10), Finite(FALSE, 1, 2),
     Infinity(FALSE), Infinity(TRUE), NaN}

(* How the two slots of node 3 are filled. *)
OuterInputs(shape, literal) ==
    CASE shape = 1 -> <<Node(2), literal>>
      [] shape = 2 -> <<literal, Node(2)>>
      [] shape = 3 -> <<Node(1), Node(2)>>
      [] shape = 4 -> <<Node(2), Node(2)>>

EvalGraph(ty, a, b, c, inner_op, outer_op, shape) ==
    LET constant_kind == IF ty = "u32" THEN "U32" ELSE "F64"
        op_kind == IF ty = "u32" THEN "U32Operation" ELSE "F64Operation"
    IN  [n \in EvalIds |->
            CASE n = 1 -> ConstantNode(constant_kind, "name", c)
              [] n = 2 -> ConstantOpNode(op_kind, <<Value(ty, a), Value(ty, b)>>, inner_op)
              [] n = 3 -> ConstantOpNode(op_kind, OuterInputs(shape, Value(ty, c)), outer_op)]

InitEval ==
    /\ \/ \E a \in U32Operands, b \in U32Operands, c \in {u32(5)},
             inner_op \in OpType, outer_op \in OpType, shape \in 1..4 :
            nodes = EvalGraph("u32", a, b, c, inner_op, outer_op, shape)
       \/ \E a \in F64Operands, b \in F64Operands, c \in {f64(10)},
             inner_op \in OpType, outer_op \in OpType, shape \in 1..4 :
            nodes = EvalGraph("f64", a, b, c, inner_op, outer_op, shape)
    /\ out = NoOut
    /\ WalksIdle

(* The caller asks for the u32 value of node node_idx.  out records the    *)
(* operands (lhs, rhs) the call computed, when the node is an operation.   *)
EvalU32(node_idx) ==
    /\ nodes[node_idx].kind \in {"U32", "U32Operation"}
    /\ out' = [fn |-> "eval_u32", node_idx |-> node_idx,
               operands |-> IF nodes[node_idx].kind = "U32Operation"
                            THEN <<NodeValue_u32_eval(nodes, nodes[node_idx].inputs[1]),
                                   NodeValue_u32_eval(nodes, nodes[node_idx].inputs[2])>>
                            ELSE <<>>,
               result |-> [tag |-> "u32", value |-> eval_u32(nodes, node_idx)]]
    /\ UNCHANGED <<nodes, edges, pc, walk, start, child_node_indices, node_indices,
                   CHILD_NODE_INDICES, NODE_INDICES, pre, pending, prev, expansions>>

(* The caller asks for the f64 value of node node_idx. *)
EvalF64(node_idx) ==
    /\ nodes[node_idx].kind \in {"F64", "F64Operation"}
    /\ out' = [fn |-> "eval_f64", node_idx |-> node_idx,
               operands |-> IF nodes[node_idx].kind = "F64Operation"
                            THEN <<NodeValue_f64_eval(nodes, nodes[node_idx].inputs[1]),
                                   NodeValue_f64_eval(nodes, nodes[node_idx].inputs[2])>>
                            ELSE <<>>,
               result |-> [tag |-> "f64", value |-> eval_f64(nodes, node_idx)]]
    /\ UNCHANGED <<nodes, edges, pc, walk, start, child_node_indices, node_indices,
                   CHILD_NODE_INDICES, NODE_INDICES, pre, pending, prev, expansions>>

NextEval ==
    \/ \E node_idx \in EvalIds : EvalU32(node_idx)
    \/ \E node_idx \in EvalIds : EvalF64(node_idx)

SpecEval == InitEval /\ [][NextEval]_vars

-----------------------------------------------------------------------------
(* Notions the evaluator's properties are stated with. *)

(* The last call was eval_u32 / eval_f64 on an operation node with this operator. *)
EvaluatedU32(op_ty) ==
    /\ out.fn = "eval_u32"
    /\ nodes[out.node_idx].kind = "U32Operation"
    /\ nodes[out.node_idx].op_ty = op_ty

EvaluatedF64(op_ty) ==
    /\ out.fn = "eval_f64"
    /\ nodes[out.node_idx].kind = "F64Operation"
    /\ nodes[out.node_idx].op_ty = op_ty

(* a + b, with a high limb that may exceed 16 bits. *)
WideSum(a, b) == <<a[1] + b[1] + (a[2] + b[2]) \div Limb, (a[2] + b[2]) % Limb>>

(* q is the integer quotient of a by b # 0: q * b <= a < q * b + b. *)
IsQuotientU32(q, a, b) ==
    /\ q[1] = 0 \/ b[1] = 0
    /\ LET wide == IF q[1] > 0 THEN q ELSE b
           narrow == IF q[1] > 0 THEN b[2] ELSE q[2]
           low == LimbProduct(wide[2], narrow)
           high == LimbProduct(wide[1], narrow)
           product == <<high[2] + low[1], low[2]>>
       IN  /\ high[1] = 0
           /\ ~Less(a, product)
           /\ Less(Minus(a, product), b)

(* p is the product of a and b # 0: p is a multiple of b and p / b = a. *)
IsProductU32(p, a, b) == DivideFrom(p, b, 31, <<0, 0>>, <<0, 0>>) = <<a, <<0, 0>>>>

(* The largest a for which a * b is representable: 4294967295 / b. *)
LargestFactor(b) == DivideFrom(u32_MAX, b, 31, <<0, 0>>, <<0, 0>>)[1]

(* q is the IEEE quotient of l by r, for r that is not a zero. *)
IsQuotientF64(q, l, r) ==
    CASE l.cls = "nan" \/ r.cls = "nan" -> q.cls = "nan"
      [] l.cls = "inf" /\ r.cls = "inf" -> q.cls = "nan"
      [] l.cls = "inf" -> q.cls = "inf" /\ q.neg = (l.neg # r.neg)
      [] r.cls = "inf" -> q.cls = "fin" /\ q.num = 0 /\ q.neg = (l.neg # r.neg)
      [] OTHER -> /\ q.cls = "fin"
                  /\ q.neg = (l.neg # r.neg)
                  /\ q.num * r.num * l.den = l.num * q.den * r.den

-----------------------------------------------------------------------------
(* C16: eval_u32 of a u32 operation node with operands a and b never       *)
(* faults; it gives a+b, a-b, a*b or the integer quotient a/b when that is *)
(* representable in 32 bits and b is not zero for a division, and 0        *)
(* otherwise.  A literal operand is the literal's value.                   *)
C16_UnsignedEvaluation ==
    (out.fn = "eval_u32" /\ nodes[out.node_idx].kind = "U32Operation") =>
        LET node == nodes[out.node_idx]
            a == out.operands[1]
            b == out.operands[2]
            r == out.result.value
        IN  /\ \A i \in 1..2 : node.inputs[i].tag = "Value" => out.operands[i] = node.inputs[i].val
            /\ r # UnreachableU32
            /\ r[1] \in 0..(Limb - 1) /\ r[2] \in 0..(Limb - 1)
            /\ node.op_ty = "Add" =>
                   IF Less(Minus(u32_MAX, b), a) THEN r = <<0, 0>>
                   ELSE ~Less(r, b) /\ Minus(r, b) = a
            /\ node.op_ty = "Subtract" =>
                   IF Less(a, b) THEN r = <<0, 0>> ELSE WideSum(r, b) = a
            /\ node.op_ty = "Multiply" =>
                   IF a = <<0, 0>> \/ b = <<0, 0>> THEN r = <<0, 0>>
                   ELSE IF Less(LargestFactor(b), a) THEN r = <<0, 0>>
                   ELSE IsProductU32(r, a, b)
            /\ node.op_ty = "Divide" =>
                   IF b = <<0, 0>> THEN r = <<0, 0>> ELSE IsQuotientU32(r, a, b)

(* Scenario C: add(4294967295, 1) evaluates to 0. *)
C16_Witness ==
    /\ EvaluatedU32("Add")
    /\ nodes[out.node_idx].inputs = <<Value("u32", <<65535, 65535>>), Value("u32", <<0, 1>>)>>
    /\ out.result.value = <<0, 0>>

(* The u32 operation node holds two literals and its own operation fails:  *)
(* the sum overflows, the difference underflows, the product overflows or  *)
(* the divisor is zero.                                                    *)
FailsU32(node) ==
    /\ node.kind = "U32Operation"
    /\ node.inputs[1].tag = "Value" /\ node.inputs[2].tag = "Value"
    /\ LET a == node.inputs[1].val
           b == node.inputs[2].val
       IN  CASE node.op_ty = "Add" -> Less(Minus(u32_MAX, b), a)
             [] node.op_ty = "Subtract" -> Less(a, b)
             [] node.op_ty = "Multiply" ->
                    a # <<0, 0>> /\ b # <<0, 0>> /\ Less(LargestFactor(b), a)
             [] node.op_ty = "Divide" -> b = <<0, 0>>

(* The slots of node that reference an operation node that fails. *)
FailedSlots(g, node) ==
    {i \in 1..2 : node.inputs[i].tag = "Node" /\ FailsU32(g[node.inputs[i].val])}

(* C23: when eval_u32 is called on a u32 operation node with a slot that   *)
(* references a u32 operation node whose own operation fails, the operand  *)
(* of that slot is 0 and the result is what the outer operation gives for  *)
(* it: the other operand for a sum, the left operand for a difference      *)
(* whose right operand is 0, and 0 for every other difference, for a       *)
(* product and for a quotient.                                             *)
C23_CollapsedOperand ==
    (/\ out.fn = "eval_u32" /\ nodes[out.node_idx].kind = "U32Operation"
     /\ FailedSlots(nodes, nodes[out.node_idx]) # {})
    => LET node == nodes[out.node_idx]
           lhs == out.operands[1]
           rhs == out.operands[2]
           r == out.result.value
       IN  /\ \A i \in FailedSlots(nodes, node) : out.operands[i] = <<0, 0>>
           /\ node.op_ty = "Add" => r = IF lhs = <<0, 0>> THEN rhs ELSE lhs
           /\ node.op_ty = "Subtract" => r = IF rhs = <<0, 0>> THEN lhs ELSE <<0, 0>>
           /\ node.op_ty \in {"Multiply", "Divide"} => r = <<0, 0>>

(* (4294967295 + 1) + 5 evaluates to 5. *)
C23_Witness ==
    /\ EvaluatedU32("Add")
    /\ nodes[out.node_idx].inputs = <<Node(2), Value("u32", <<0, 5>>)>>
    /\ nodes[2] = ConstantOpNode("U32Operation",
                      <<Value("u32", <<65535, 65535>>), Value("u32", <<0, 1>>)>>, "Add")
    /\ out.operands = <<<<0, 0>>, <<0, 5>>>>
    /\ out.result.value = <<0, 5>>

(* C17: eval_f64 of an f64 division node gives 0.0 when its right operand  *)
(* evaluates to zero, whatever the left operand, and the quotient when the *)
(* right operand is not zero.  A literal operand is the literal's value.   *)
C17_FloatDivision ==
    EvaluatedF64("Divide") =>
        LET node == nodes[out.node_idx]
            lhs == out.operands[1]
            rhs == out.operands[2]
        IN  /\ \A i \in 1..2 : node.inputs[i].tag = "Value" => out.operands[i] = node.inputs[i].val
            /\ IF rhs.cls = "fin" /\ rhs.num = 0
               THEN out.result.value = [cls |-> "fin", neg |-> FALSE, num |-> 0, den |-> 1]
               ELSE IsQuotientF64(out.result.value, lhs, rhs)

(* Scenario B: the division node with literal inputs (10.0, 0.0) gives 0.0. *)
C17_Witness ==
    /\ EvaluatedF64("Divide")
    /\ nodes[out.node_idx].inputs = <<Value("f64", f64(10)), Value("f64", f64(0))>>
    /\ out.result.value = f64(0)

-----------------------------------------------------------------------------
(* What a promotion does to the nodes it rewrites, and how it fails.       *)

(* C18: every node that was an unresolved operation when a promotion was   *)
(* entered and is an operation of the target type now has the operator tag *)
(* it had, references the node it referenced in each slot that held a      *)
(* reference, and holds a literal in each slot that held a literal.        *)
C18_PromotionKeepsContent ==
    (pc \in {"loop", "returned", "aborted"} /\ IsPromote(walk)) =>
        \A n \in Ops :
            (pre[n].kind = "Operation" /\ nodes[n].kind = WalkKind(walk)) =>
                /\ nodes[n].op_ty = pre[n].op_ty
                /\ \A pin \in Pins :
                     IF pre[n].inputs[pin].tag = "Node"
                     THEN nodes[n].inputs[pin] = pre[n].inputs[pin]
                     ELSE nodes[n].inputs[pin].tag = "Value"

(* A promotion to f64 has rewritten a node whose first slot references     *)
(* another node and whose second slot holds a literal.                     *)
C18_Witness ==
    /\ pc = "returned" /\ walk = "f64_from_tuple"
    /\ \E n \in Ops, i \in Ops :
         /\ pre[n] = ConstantOpNode("Operation", <<Node(i), Value("unit", 0)>>, pre[n].op_ty)
         /\ nodes[n] = ConstantOpNode("F64Operation", <<Node(i), Value("f64", 0)>>, pre[n].op_ty)
         /\ pre[n].op_ty # "Add"

(* C20: a promotion is aborted exactly when its flood fill takes a node    *)
(* it has not visited that is not an unresolved operation: while it runs,  *)
(* every visited node was an unresolved operation; when it has returned,   *)
(* every node reachable from the start was one; when it is aborted, one    *)
(* visited node was not, every other visited node has already been         *)
(* rewritten to the target type, and the two thread-locals of the walk     *)
(* are still taken.                                                        *)
C20_PromotionAbort ==
    IsPromote(walk) =>
        /\ pc = "loop" => \A n \in child_node_indices : pre[n].kind = "Operation"
        /\ pc = "returned" => \A n \in Flood(pre, edges, start) : pre[n].kind = "Operation"
        /\ pc = "aborted" =>
             /\ \E n \in child_node_indices :
                  /\ pre[n].kind # "Operation"
                  /\ nodes[n] = pre[n]
                  /\ \A m \in child_node_indices \ {n} :
                       /\ pre[m].kind = "Operation"
                       /\ nodes[m].kind = WalkKind(walk)
             /\ \E n \in Flood(pre, edges, start) : pre[n].kind # "Operation"
             /\ CHILD_NODE_INDICES[walk] = NoneSet
             /\ NODE_INDICES[walk] = NoneVec

(* A promotion to u32 aborted on a consumer that is not an operation node, *)
(* after it had rewritten the start node.                                  *)
C20_Witness ==
    /\ pc = "aborted" /\ walk = "u32_from_tuple"
    /\ pre[start].kind = "Operation"
    /\ nodes[start].kind = "U32Operation"
    /\ \E n \in child_node_indices \ {start} :
         /\ n \in Consumers(edges, start)
         /\ pre[n].kind \notin OpKinds
    /\ CHILD_NODE_INDICES[walk] = NoneSet

-----------------------------------------------------------------------------
(* The walks on graphs of any shape.  The propagate functions are public   *)
(* and take any Snarl, so the graph they are called on need not be one the *)
(* editing layer builds: slots can reference their own node or form        *)
(* cycles, and the operation nodes can be of any variant.  Every wire is   *)
(* the wire of a slot that holds a reference.                              *)

WalkKinds == {"Operation", "F64Operation", "U32Operation"}
NextOp(n) == (n % MaxOps) + 1
PrevOp(n) == ((n + MaxOps - 2) % MaxOps) + 1

(* The operation nodes are of variant kind; the first slot of node n holds *)
(* a literal, a reference to n itself or a reference to the next operation *)
(* node, its second slot a literal or a reference to the previous one; the *)
(* frequency of the fractal node is a literal or a reference to the first  *)
(* operation node.  The literals of f64 and u32 operation nodes have the   *)
(* value literal; a literal of an unresolved operation node is the unit    *)
(* value.                                                                  *)
WalkGraph(kind, first, second, frequency, literal) ==
    [n \in NodeIds |->
        IF n \in Ops
        THEN ConstantOpNode(kind,
                 <<CASE first[n] = "self" -> Node(n)
                     [] first[n] = "next" -> Node(NextOp(n))
                     [] OTHER -> Value(TyOfKind(kind),
                                       IF kind = "Operation" THEN 0 ELSE literal),
                   IF second[n] THEN Node(PrevOp(n))
                   ELSE Value(TyOfKind(kind), IF kind = "Operation" THEN 0 ELSE literal)>>,
                 OpTypeSeq[(n % 4) + 1])
        ELSE IF n = F64Id THEN ConstantNode("F64", "name", 1)
        ELSE FractalNode(Value("u32", 0), Value("u32", 6),
                         IF frequency THEN Node(1) ELSE Value("f64", 1),
                         Value("f64", 2), Value("f64", 0))]

(* The wires of a graph: one into every slot that holds a reference. *)
WalkEdges(g) ==
    {<<SlotOf(g, x[1], x[2]).val, x[1], x[2]>> :
        x \in {y \in (Ops \cup {FractalId}) \X Pins : is_node_idx(SlotOf(g, y[1], y[2]))}}

(* The state before the first call, on one of the graphs given by the      *)
(* variants, the fillings of the first slot, the fillings of the frequency *)
(* and the literal values to choose from.                                  *)
WalkInit(kinds, firsts, frequencies, literals) ==
    /\ \E kind \in kinds, first \in [Ops -> firsts], second \in [Ops -> BOOLEAN],
          frequency \in frequencies, literal \in literals :
         nodes = WalkGraph(kind, first, second, frequency, literal)
    /\ edges = WalkEdges(nodes)
    /\ pc = "idle"
    /\ walk = "none"
    /\ start = 0
    /\ child_node_indices = {}
    /\ node_indices = <<>>
    /\ CHILD_NODE_INDICES = [w \in Walks |-> SomeOf({})]
    /\ NODE_INDICES = [w \in Walks |-> SomeOf(<<>>)]
    /\ pre = <<>>
    /\ pending = NoPending
    /\ prev = NoPrev
    /\ out = NoOut
    /\ expansions = [n \in NodeIds |-> 0]

InitWalk == WalkInit(WalkKinds, {"literal", "self", "next"}, BOOLEAN, {0})

(* A step of the loop of the function that was called. *)
WalkStep ==
    \/ propagate_f64_from_tuple_op
    \/ propagate_tuple_from_f64_op
    \/ propagate_tuple_from_u32_op
    \/ propagate_u32_from_tuple_op

NextWalk ==
    \/ \E w \in Walks, s \in NodeIds : Call(w, s)
    \/ WalkStep

(* A function that was called runs on: its loops are sequential code with  *)
(* nothing to wait for.                                                    *)
SpecWalk == InitWalk /\ [][NextWalk]_vars /\ WF_vars(WalkStep)

Walking == pc \in {"loop", "drain"}
Finished == pc \in {"returned", "aborted"}
ExpandedAtMostOnce == \A n \in NodeIds : expansions[n] <= 1

(* C19 as stated: no walk expands a node twice, every walk that runs       *)
(* finishes, and the work list of every walk that runs becomes empty.      *)
C19_WalkTermination ==
    /\ []ExpandedAtMostOnce
    /\ Walking ~> Finished
    /\ Walking ~> (node_indices = <<>>)

(* C19, amended: no walk expands a node twice, and every walk that runs    *)
(* finishes: it returns with an empty work list, or it is aborted.         *)
C19_WalkTerminates ==
    /\ []ExpandedAtMostOnce
    /\ Walking ~> ((pc = "returned" /\ node_indices = <<>>) \/ pc = "aborted")

(* A demotion has returned from a graph in which two nodes reference each  *)
(* other and one of them itself: each was expanded once and rewritten.     *)
C19_Witness ==
    /\ pc = "returned" /\ walk = "tuple_from_f64"
    /\ node_indices = <<>>
    /\ \E a \in Ops, b \in Ops :
         /\ a # b
         /\ pre[a].inputs[1] = Node(a)
         /\ pre[a].inputs[2] = Node(b)
         /\ pre[b].inputs[1] = Node(a)
         /\ expansions[a] = 1 /\ expansions[b] = 1
         /\ nodes[a].kind = "Operation" /\ nodes[b].kind = "Operation"

(* What a finished walk has done: aborted, returned without a change, or   *)
(* returned with a changed graph.                                          *)
WalkOutcome ==
    IF pc = "aborted" THEN <<"abort">>
    ELSE IF nodes = pre THEN <<"unchanged">>
    ELSE <<"commit", nodes>>

(* What walk w does to graph g with wires E when it is started from s, as  *)
(* a function of the nodes within reach of s: a promotion commits when all *)
(* of them are unresolved operations and aborts otherwise, a demotion      *)
(* commits when all of them are operations of its type and changes nothing *)
(* otherwise; a commit rewrites exactly the nodes within reach.            *)
OutcomeFrom(g, E, w, s) ==
    LET reach == Flood(g, E, s)
        from == IF IsPromote(w) THEN "Operation" ELSE WalkKind(w)
        to == IF IsPromote(w) THEN WalkKind(w) ELSE "Operation"
    IN  IF \A n \in reach : g[n].kind = from
        THEN <<"commit", [n \in NodeIds |-> IF n \in reach THEN Rewritten(g[n], to) ELSE g[n]]>>
        ELSE IF IsPromote(w) THEN <<"abort">> ELSE <<"unchanged">>

(* C22: a walk called on an operation node, however it orders its work     *)
(* list and its drain, finishes with the outcome determined by the graph   *)
(* and any node of the start node's component: the same abort, the same    *)
(* unchanged graph or the same rewritten graph as from every other start   *)
(* in the component.                                                       *)
C22_StartOrderIndependence ==
    (Finished /\ start \in Ops) =>
        \A s \in Component(pre, edges, start) :
            WalkOutcome = OutcomeFrom(pre, edges, walk, s)

(* A demotion from u32 has committed on a component of several nodes, one  *)
(* of which has several consumers, from a start node that is not the first *)
(* of the component.                                                       *)
C22_Witness ==
    /\ pc = "returned" /\ walk = "tuple_from_u32"
    /\ nodes # pre
    /\ \E s \in Component(pre, edges, start) : s < start
    /\ \E n \in Component(pre, edges, start) : Cardinality(Consumers(edges, n)) >= 2
    /\ \A n \in Ops : nodes[n].kind = "Operation"

-----------------------------------------------------------------------------
(* Calls one after the other on graphs of concrete operation nodes whose   *)
(* literals have a value: a walk that has returned can be followed by      *)
(* another call.                                                           *)

Literals == {0, 1}

InitCycle == WalkInit({"F64Operation", "U32Operation"}, {"literal", "next"}, {FALSE}, Literals)

NextCycle ==
    \/ \E w \in Walks, s \in NodeIds : Call(w, s)
    \/ WalkStep
    \/ Resume

SpecCycle == InitCycle /\ [][NextCycle]_vars

(* C21: when a promotion returns that was called, on a node of the same    *)
(* component, right after a demotion from the same type had changed the    *)
(* graph, every operation node of that component has the operator tag and  *)
(* the references it had before the demotion, and the literal 0 of the     *)
(* type in every slot that held a literal before the demotion.             *)
C21_LiteralsReset ==
    (/\ pc = "returned" /\ IsPromote(walk)
     /\ IsDemote(prev.walk) /\ WalkKind(prev.walk) = WalkKind(walk)
     /\ start \in Component(prev.pre, edges, prev.start))
    => \A n \in Component(prev.pre, edges, prev.start) :
         /\ nodes[n].kind = prev.pre[n].kind
         /\ nodes[n].op_ty = prev.pre[n].op_ty
         /\ \A pin \in Pins :
              IF prev.pre[n].inputs[pin].tag = "Node"
              THEN nodes[n].inputs[pin] = prev.pre[n].inputs[pin]
              ELSE nodes[n].inputs[pin] = Value(TyOfKind(WalkKind(walk)), 0)

(* After a demotion from f64 and a promotion to f64, a node holds the      *)
(* reference it held and 0.0 where it held the literal 1.0.                *)
C21_Witness ==
    /\ pc = "returned" /\ walk = "f64_from_tuple" /\ prev.walk = "tuple_from_f64"
    /\ \E n \in Component(prev.pre, edges, prev.start) :
         /\ n # start /\ n # prev.start
         /\ prev.pre[n].inputs[1].tag = "Node"
         /\ nodes[n].inputs[1] = prev.pre[n].inputs[1]
         /\ prev.pre[n].inputs[2] = Value("f64", 1)
         /\ nodes[n].inputs[2] = Value("f64", 0)

=============================================================================
